---- MODULE Spec2Model ----
(***************************************************************************)
(* State-machine model of plex-mcp-server: the HTTP application of         *)
(* server.py (SSE endpoint, message-post endpoint, connection tracking and *)
(* lifespan shutdown), the two process entry points, and the tool handlers *)
(* of the client, collection, library and sessions modules.                *)
(***************************************************************************)
EXTENDS Integers, Sequences, FiniteSets, TLC

VARIABLES
    lifespan_state,       \* server.py lifespan: "running" until the code after `yield` has run
    active_connections,   \* server.py:17, the set of registered connection tasks
    conn,                 \* per ASGI task: scope, position in sse_handler, response
    cancel_called,        \* tasks on which Task.cancel() has been called
    read_stream_writers,  \* session table of the SseServerTransport instance `sse`
    delivered,            \* per session: number of posted messages handed to it
    environ,              \* __main__.py: the FASTMCP_* environment variables
    main_pc,              \* __main__.py main(): "start", "serving" or "raised"
    uvicorn_run,          \* __main__.py: the keyword arguments main() gives uvicorn.run
    app_debug,            \* server.py:105-106: debug of the imported application
    argv,                 \* plex_mcp_server.py: the command line
    script_pc,            \* plex_mcp_server.py __main__ block: position
    args,                 \* plex_mcp_server.py: the namespace parse_args returned
    started,              \* plex_mcp_server.py: transports started, in order
    script_app,           \* plex_mcp_server.py create_starlette_app: the session tables
                          \* of its transport instances and the answers to the posts
    plex,                 \* the media server as the client library shows it
    tool                  \* the tool invocation in progress or last finished

http_vars == <<lifespan_state, active_connections, conn, cancel_called,
               read_stream_writers, delivered>>

main_vars == <<environ, main_pc, uvicorn_run, app_debug>>

script_vars == <<argv, script_pc, args, started, script_app>>

tool_vars == <<plex, tool>>

vars == <<http_vars, main_vars, script_vars, tool_vars>>

(***************************************************************************)
(* Bounds                                                                  *)
(***************************************************************************)
MaxTasks == 2      \* ASGI request tasks in one run of the application
MaxMsgs == 1       \* messages posted to one session

Tasks == 1..MaxTasks

(***************************************************************************)
(* Strings are sequences of characters, so that str.startswith and         *)
(* str.lower are computed rather than assumed.                             *)
(***************************************************************************)
startswith(s, prefix) ==
    /\ Len(s) >= Len(prefix)
    /\ SubSeq(s, 1, Len(prefix)) = prefix

PathSse == <<"/", "s", "s", "e">>
PathSseSlash == <<"/", "s", "s", "e", "/">>
PathSseSub == <<"/", "s", "s", "e", "/", "x">>
PathMessagesSlash == <<"/", "m", "e", "s", "s", "a", "g", "e", "s", "/">>
PathMessages == <<"/", "m", "e", "s", "s", "a", "g", "e", "s">>
PathMessagesX == <<"/", "m", "e", "s", "s", "a", "g", "e", "s", "X">>
PathMessage == <<"/", "m", "e", "s", "s", "a", "g", "e">>
PathTools == <<"/", "t", "o", "o", "l", "s">>
PathRoot == <<"/">>

Paths == {PathSse, PathSseSlash, PathSseSub, PathMessagesSlash, PathMessages,
          PathMessagesX, PathMessage, PathTools, PathRoot}

NoSession == 0

\* ASGI scopes the web server hands to the application.  session_id is the
\* query parameter of a message post (NoSession: absent or unknown); a
\* websocket scope has no method key.
Scopes ==
    { [type |-> "http", method |-> m, path |-> p, session_id |-> NoSession] :
        m \in {"GET", "POST"}, p \in Paths }
    \cup { [type |-> "http", method |-> m, path |-> p, session_id |-> s] :
        m \in {"GET", "POST"}, p \in {PathMessagesSlash, PathMessages, PathMessagesX},
        s \in Tasks }
    \cup { [type |-> "websocket", method |-> "none", path |-> p, session_id |-> NoSession] :
        p \in {PathSse, PathMessagesSlash, PathRoot} }

NoScope == [type |-> "none", method |-> "none", path |-> <<>>, session_id |-> NoSession]
NoResponse == [status |-> 0, body |-> "none"]

IdleConn == [pc |-> "idle", scope |-> NoScope, handler |-> "none", branch |-> "none",
             response |-> NoResponse]


(***************************************************************************)
(* __main__.py: package entry point                                        *)
(***************************************************************************)
Unset == <<"<unset>">>

\* os.environ.get(key, default)
environ_get(env, key, default) == IF env[key] = Unset THEN default ELSE env[key]

\* str.lower on the characters that occur in the modelled values
lower_char(c) ==
    CASE c = "A" -> "a" [] c = "B" -> "b" [] c = "C" -> "c" [] c = "D" -> "d"
      [] c = "E" -> "e" [] c = "F" -> "f" [] c = "G" -> "g" [] c = "H" -> "h"
      [] c = "I" -> "i" [] c = "J" -> "j" [] c = "K" -> "k" [] c = "L" -> "l"
      [] c = "M" -> "m" [] c = "N" -> "n" [] c = "O" -> "o" [] c = "P" -> "p"
      [] c = "Q" -> "q" [] c = "R" -> "r" [] c = "S" -> "s" [] c = "T" -> "t"
      [] c = "U" -> "u" [] c = "V" -> "v" [] c = "W" -> "w" [] c = "X" -> "x"
      [] c = "Y" -> "y" [] c = "Z" -> "z" [] OTHER -> c

lower(s) == [i \in DOMAIN s |-> lower_char(s[i])]

\* str(bool)
str_bool(b) == IF b THEN <<"T", "r", "u", "e">> ELSE <<"F", "a", "l", "s", "e">>

Digits == {"0", "1", "2", "3", "4", "5", "6", "7", "8", "9"}

digit_value(c) ==
    CASE c = "0" -> 0 [] c = "1" -> 1 [] c = "2" -> 2 [] c = "3" -> 3 [] c = "4" -> 4
      [] c = "5" -> 5 [] c = "6" -> 6 [] c = "7" -> 7 [] c = "8" -> 8 [] c = "9" -> 9

\* int(s) for an unsigned decimal literal; ValueError otherwise
int_ok(s) == Len(s) > 0 /\ \A i \in DOMAIN s : s[i] \in Digits

RECURSIVE int_value(_)
int_value(s) ==
    IF Len(s) = 0 THEN 0
    ELSE 10 * int_value(SubSeq(s, 1, Len(s) - 1)) + digit_value(s[Len(s)])

StrTrue == <<"t", "r", "u", "e">>
StrOne == <<"1">>
StrYes == <<"y", "e", "s">>
DefaultHost == <<"0", ".", "0", ".", "0", ".", "0">>
DefaultPort == <<"3", "0", "0", "1">>

\* server.py:105 and __main__.py:12
debug_of(env) == environ_get(env, "FASTMCP_DEBUG", str_bool(FALSE)) = str_bool(TRUE)

\* reload read without lower-casing the variable
reload_of_case_sensitive(env) ==
    environ_get(env, "FASTMCP_RELOAD", str_bool(debug_of(env))) \in {StrTrue, StrOne, StrYes}

\* __main__.py:13
reload_of(env) ==
    lower(environ_get(env, "FASTMCP_RELOAD", str_bool(debug_of(env)))) \in {StrTrue, StrOne, StrYes}

NoCall == [called |-> FALSE, app |-> "none", host |-> <<>>, port |-> 0, reload |-> FALSE,
           timeout_graceful_shutdown |-> 0]

\* main(): reads the environment and calls uvicorn.run, or raises ValueError
\* from int() before anything is served.
main ==
    /\ main_pc = "start"
    /\ LET host == environ_get(environ, "FASTMCP_HOST", DefaultHost)
           port_str == environ_get(environ, "FASTMCP_PORT", DefaultPort)
           reload == reload_of(environ)
       IN IF ~int_ok(port_str)
          THEN /\ main_pc' = "raised"
               /\ UNCHANGED uvicorn_run
          ELSE /\ main_pc' = "serving"
               /\ uvicorn_run' =
                    [called |-> TRUE, app |-> "plex_mcp_server.server:app", host |-> host,
                     port |-> int_value(port_str), reload |-> reload,
                     timeout_graceful_shutdown |-> IF reload THEN 2 ELSE 5]
    /\ UNCHANGED <<environ, app_debug, http_vars, script_vars, tool_vars>>

\* uvicorn imports plex_mcp_server.server: the module-level statements
\* create the application with debug read from the environment.
import_app ==
    /\ main_pc = "serving"
    /\ app_debug = "unset"
    /\ app_debug' = IF debug_of(environ) THEN "on" ELSE "off"
    /\ UNCHANGED <<environ, main_pc, uvicorn_run, http_vars, script_vars, tool_vars>>

EnvHosts == {Unset, <<"1", "2", "7", ".", "0", ".", "0", ".", "1">>}
EnvPorts == {Unset, <<"8", "0", "8", "0">>, <<"8", "0", "a">>, <<>>}
EnvDebugs == {Unset, <<"T", "r", "u", "e">>, <<"t", "r", "u", "e">>, <<"T", "R", "U", "E">>,
              <<"F", "a", "l", "s", "e">>, <<"1">>, <<>>}
EnvReloads == {Unset, <<"t", "r", "u", "e">>, <<"T", "r", "u", "e">>, <<"T", "R", "U", "E">>,
               <<"1">>, <<"y", "e", "s">>, <<"Y", "e", "s">>, <<"Y", "E", "S">>,
               <<"F", "a", "l", "s", "e">>, <<"0">>, <<"n", "o">>, <<"o", "n">>, <<>>,
               <<"t", "r", "u", "e", " ">>}

Environs ==
    { [k \in {"FASTMCP_HOST", "FASTMCP_PORT", "FASTMCP_DEBUG", "FASTMCP_RELOAD"} |->
         CASE k = "FASTMCP_HOST" -> h [] k = "FASTMCP_PORT" -> p
           [] k = "FASTMCP_DEBUG" -> d [] k = "FASTMCP_RELOAD" -> r] :
      h \in EnvHosts, p \in EnvPorts, d \in EnvDebugs, r \in EnvReloads }

NoEnviron == [k \in {"FASTMCP_HOST", "FASTMCP_PORT", "FASTMCP_DEBUG", "FASTMCP_RELOAD"} |-> Unset]

IdleMain ==
    /\ environ = NoEnviron
    /\ main_pc = "idle"
    /\ uvicorn_run = NoCall
    /\ app_debug = "unset"

(***************************************************************************)
(* plex_mcp_server.py: script entry point                                  *)
(***************************************************************************)
TransportChoices == {"stdio", "sse"}

NoArgv == [transport |-> "<unset>", host |-> Unset, port |-> 0, debug |-> FALSE]
NoArgs == [transport |-> "none", host |-> <<>>, port |-> 0, debug |-> FALSE]

\* parser.parse_args(): the namespace, with the defaults of add_argument
parse_args(av) ==
    [transport |-> IF av.transport = "<unset>" THEN "sse" ELSE av.transport,
     host |-> IF av.host = Unset THEN DefaultHost ELSE av.host,
     port |-> IF av.port = 0 THEN 3001 ELSE av.port,
     debug |-> av.debug]

\* choices=['stdio', 'sse']: any other value makes argparse exit with status 2
parse_args_ok(av) == av.transport \in TransportChoices \cup {"<unset>"}

\* plex_mcp_server.py:91: `sse` of create_starlette_app has no session; no
\* request was handled (inner[t]: the table of the transport that handle_sse
\* made for request t)
NoApp ==
    [outer |-> {}, inner |-> [t \in Tasks |-> {}], opened |-> {},
     post |-> [session_id |-> NoSession, status |-> 0]]

IdleScript ==
    /\ argv = NoArgv
    /\ script_pc = "idle"
    /\ args = NoArgs
    /\ started = <<>>
    /\ script_app = NoApp

\* args = parser.parse_args()
script_parse_args ==
    /\ script_pc = "start"
    /\ IF parse_args_ok(argv)
       THEN /\ args' = parse_args(argv)
            /\ script_pc' = "parsed"
       ELSE /\ args' = args
            /\ script_pc' = "usage_error"
    /\ UNCHANGED <<argv, started, script_app, http_vars, main_vars, tool_vars>>

StdioTransport == [transport |-> "stdio", host |-> <<>>, port |-> 0, debug |-> FALSE]

SseTransport(a) == [transport |-> "sse", host |-> a.host, port |-> a.port, debug |-> a.debug]

\* the two branches run one after the other (the `else` lost)
script_run_transport_both ==
    /\ script_pc = "parsed"
    /\ IF args.transport = "stdio"
       THEN /\ started' = Append(Append(started, StdioTransport), SseTransport(args))
            /\ script_pc' = "uvicorn.run"
       ELSE /\ started' = Append(started, SseTransport(args))
            /\ script_pc' = "uvicorn.run"
    /\ UNCHANGED <<argv, args, script_app, http_vars, main_vars, tool_vars>>

\* `if args.transport == 'stdio': mcp.run(transport='stdio') else: ...
\* uvicorn.run(starlette_app, host=args.host, port=args.port)`
script_run_transport ==
    /\ script_pc = "parsed"
    /\ IF args.transport = "stdio"
       THEN /\ started' = Append(started, StdioTransport)
            /\ script_pc' = "mcp.run"
       ELSE /\ started' = Append(started, SseTransport(args))
            /\ script_pc' = "uvicorn.run"
    /\ UNCHANGED <<argv, args, script_app, http_vars, main_vars, tool_vars>>

\* the blocking run call returns and the script ends
script_exit ==
    /\ script_pc \in {"mcp.run", "uvicorn.run"}
    /\ script_pc' = "exited"
    /\ UNCHANGED <<argv, args, started, script_app, http_vars, main_vars, tool_vars>>

Argvs ==
    { [transport |-> tr, host |-> h, port |-> p, debug |-> d] :
        tr \in {"<unset>", "stdio", "sse", "http"},
        h \in {Unset, <<"1", "2", "7", ".", "0", ".", "0", ".", "1">>},
        p \in {0, 8080, 9000},
        d \in BOOLEAN }

(***************************************************************************)
(* Tool handlers: calls into the client library, exceptions, responses     *)
(***************************************************************************)
MaxFaults == 2     \* calls that raise during one invocation
MaxNth == 2        \* a fault hits the first or the second call of an operation

NoExc == [type |-> "none", text |-> "none"]
NoRet == [model |-> "none", status |-> "none", prefix |-> "none", detail |-> "none"]

\* A fault makes the nth call of operation op raise an exception of the type.
\* once: operations a handler calls at most once; many: those it may repeat;
\* typed: those called under an `except NotFound`, where the type matters.
FaultTypes(op, typed) ==
    IF op = "media.history" THEN {"AttributeError", "Exception"}
    ELSE IF op \in typed THEN {"NotFound", "Exception"} ELSE {"Exception"}

FaultPoints(typed, once, many) ==
    UNION { { [op |-> o, nth |-> 1, type |-> ty] : ty \in FaultTypes(o, typed) } :
              o \in once }
    \cup UNION { { [op |-> o, nth |-> n, type |-> ty] :
                     n \in 1..MaxNth, ty \in FaultTypes(o, typed) } : o \in many }

\* the sets of at most n of the points, no two for the same call
RECURSIVE PlansUpTo(_, _)
PlansUpTo(points, n) ==
    IF n = 0 THEN {{}}
    ELSE LET fewer == PlansUpTo(points, n - 1) IN
         fewer \cup UNION { { fs \cup {p} : p \in { q \in points :
                                  \A f \in fs : f.op # q.op \/ f.nth # q.nth } } :
                            fs \in fewer }

FaultPlans(typed, once, many) == PlansUpTo(FaultPoints(typed, once, many), MaxFaults)

\* The handler starts: nothing called, nothing raised, nothing returned.
Begin(px, faults) ==
    [st |-> "run", calls |-> <<>>, exc |-> NoExc, ret |-> NoRet, plex |-> px,
     faults |-> faults, items |-> <<>>]

Times(calls, op) == Cardinality({i \in DOMAIN calls : calls[i].op = op})

\* A call into the client library: recorded, and it returns or raises.  str(e)
\* of the exception is the name of the operation that raised it.  natural is
\* the exception the call raises on this server by itself ("none": it returns).
CallOr(k, op, arg, natural) ==
    IF k.st # "run" THEN k
    ELSE LET fs == {f \in k.faults : f.op = op /\ f.nth = Times(k.calls, op) + 1}
             type == IF fs # {} THEN (CHOOSE f \in fs : TRUE).type ELSE natural
         IN
         IF type = "none"
         THEN [k EXCEPT !.calls = Append(@, [op |-> op, arg |-> arg, ok |-> TRUE,
                                             raised |-> "none"])]
         ELSE [k EXCEPT !.calls = Append(@, [op |-> op, arg |-> arg, ok |-> FALSE,
                                             raised |-> type]),
                        !.st = "raised",
                        !.exc = [type |-> type, text |-> op]]

Call(k, op, arg) == CallOr(k, op, arg, "none")

\* A try statement inside the handler: its except clauses see only what the
\* try body raised, and the statement is reached only by a running handler.
InTry(before, after) == IF before.st = "run" THEN after ELSE before

\* plex = connect_to_plex(): hands the handler the server object, or raises;
\* it keeps nothing from one invocation to the next.
connect_to_plex(k) == Call(k, "connect_to_plex", <<>>)

\* `return resp`
Return(k, resp) ==
    IF k.st # "run" THEN k ELSE [k EXCEPT !.st = "returned", !.ret = resp]

\* `raise` of an exception of the handler's own code
Raise(k, type, text) ==
    IF k.st # "run" THEN k ELSE [k EXCEPT !.st = "raised", !.exc = [type |-> type, text |-> text]]

\* `except <clause>` matches the pending exception
Caught(k, clause) ==
    k.st = "raised" /\ (clause = "Exception" \/ clause = k.exc.type)

\* the body of an except clause starts: the exception is handled
Handled(k) == [k EXCEPT !.st = "run", !.exc = NoExc]

\* ErrorResponse(message=prefix + detail), status defaults to "error"
ErrorResponse(prefix, detail) ==
    [model |-> "ErrorResponse", status |-> "error", prefix |-> prefix, detail |-> detail]

\* an except clause that reports the failure without str(e)
ExceptReturnError_without_text(k, clause, prefix) ==
    IF Caught(k, clause)
    THEN Return(Handled(k), ErrorResponse(prefix, ""))
    ELSE k

\* `except <clause> as e: return ErrorResponse(message=f"{prefix}{str(e)}")`
ExceptReturnError(k, clause, prefix) ==
    IF Caught(k, clause)
    THEN Return(Handled(k), ErrorResponse(prefix, k.exc.text))
    ELSE k

\* `except <clause>: return ErrorResponse(message=<fixed text>)`
ExceptReturnFixed(k, clause, prefix) ==
    IF Caught(k, clause)
    THEN Return(Handled(k), ErrorResponse(prefix, ""))
    ELSE k

\* `if <cond>: return resp`
ReturnWhen(k, cond, resp) == IF cond THEN Return(k, resp) ELSE k

\* `except <clause>: pass`
ExceptPass(k, clause) == IF Caught(k, clause) THEN Handled(k) ELSE k

\* The fields a pydantic model of types/models.py declares without a default.
RequiredFields(model) ==
    CASE model = "ClientInfo" ->
           {"name", "device", "model", "product", "version", "platform", "state",
            "machine_identifier", "address", "protocol_capabilities"}
      [] model = "ClientListResponse" -> {"status", "message", "count", "clients"}
      [] model = "ErrorResponse" -> {"message"}
      [] model = "ClientDetailsResponse" -> {"status", "client"}
      [] model = "ClientTimelineResponse" -> {"status"}
      [] model = "ActiveClientsResponse" -> {"status", "message", "count", "active_clients"}
      [] model = "PlaybackResponse" -> {"status"}
      [] model = "SuccessResponse" -> {"status", "message"}
      [] model = "CollectionInfo" -> {"title", "is_smart", "ID", "items"}
      [] model = "LibraryCollections" -> {"type", "collections_count", "collections"}
      [] model = "CollectionListResponse" -> {}
      [] model = "PossibleMatch" -> {"title", "id", "type"}
      [] model = "CollectionCreateResponse" -> {}
      [] model = "CollectionAddResponse" -> {}
      [] model = "CollectionRemoveResponse" -> {}
      [] model = "CollectionDeleteResponse" -> {}
      [] model = "CollectionEditResponse" -> {}
      [] model = "LibraryInfo" ->
           {"type", "library_id", "total_size", "uuid", "locations", "updated_at"}
      [] model = "LibraryListResponse" -> {}
      [] model = "MovieStats" -> {"count", "unwatched"}
      [] model = "ShowStats" -> {"shows", "seasons", "episodes", "unwatched_shows"}
      [] model = "MusicStats" -> {"count", "total_tracks", "total_albums", "total_plays"}
      [] model = "LibraryStatsResponse" -> {"name", "type", "total_items"}
      [] model = "LibraryRefreshResponse" -> {"success", "message"}
      [] model = "LibraryScanResponse" -> {"success", "message"}
      [] model = "LibraryDetailsResponse" ->
           {"name", "type", "uuid", "total_items", "locations", "agent", "scanner",
            "language"}
      [] model = "LibraryRecentlyAddedResponse" ->
           {"count", "requested_count", "library", "items"}
      [] model = "LibraryContentsResponse" -> {"name", "type", "total_items", "items"}
      [] model = "SessionsActiveResponse" ->
           {"status", "message", "sessions_count", "sessions"}
      [] model = "MediaPlaybackHistoryResponse" -> {"status", "play_count"}

\* Model(**kwargs): pydantic raises ValidationError when a required field is
\* not among the keyword arguments (no model declares an alias).
Construct(k, model, kwargs) ==
    IF k.st # "run" THEN k
    ELSE IF RequiredFields(model) \subseteq kwargs THEN k
    ELSE Raise(k, "ValidationError", model)

\* `return Model(**kwargs)`
ReturnModel(k, model, kwargs, resp) == Return(Construct(k, model, kwargs), resp)


\* `if <cond>: <call>`
CallWhen(k, cond, op, arg) == IF cond THEN Call(k, op, arg) ELSE k

\* `if <cond>: ... Model(**kwargs)`
ConstructWhen(k, cond, model, kwargs) == IF cond THEN Construct(k, model, kwargs) ELSE k

\* `if <cond>: return Model(**kwargs)`
ReturnModelWhen(k, cond, model, kwargs, resp) ==
    ReturnWhen(ConstructWhen(k, cond, model, kwargs), cond, resp)


(***************************************************************************)
(* The media server: clients, sessions, library sections                   *)
(***************************************************************************)
\* the first position of a list comprehension's matches
First(S) == CHOOSE i \in S : \A j \in S : i <= j

Range(seq) == {seq[i] : i \in DOMAIN seq}

\* Python `sub in s` on strings
contains(sub, s) ==
    \E i \in 1..(Len(s) - Len(sub) + 1) : SubSeq(s, i, i + Len(sub) - 1) = sub

NoTimeline == [present |-> FALSE, state |-> "none", time |-> 0, duration |-> 0]

ClientTV ==
    [title |-> <<"T", "V">>, machineIdentifier |-> "m1",
     protocolCapabilities |-> {"timeline", "playback", "navigation", "Player"},
     timeline |-> [present |-> TRUE, state |-> "playing", time |-> 45000, duration |-> 100000]]

ClientPhone ==
    [title |-> <<"P", "h">>, machineIdentifier |-> "m2",
     protocolCapabilities |-> {"timeline"},
     timeline |-> NoTimeline]

ClientTV2 ==
    [title |-> <<"T", "V", "2">>, machineIdentifier |-> "m4",
     protocolCapabilities |-> {"timeline", "playback", "navigation"},
     timeline |-> [present |-> TRUE, state |-> "paused", time |-> 10000, duration |-> 100000]]

\* players as active sessions report them
PlayerTV == [ClientTV EXCEPT !.timeline = NoTimeline]
PlayerPhone == ClientPhone
PlayerTablet ==
    [title |-> <<"T", "a", "b">>, machineIdentifier |-> "m3",
     protocolCapabilities |-> {"timeline", "playback"},
     timeline |-> NoTimeline]

NoPlayer ==
    [title |-> <<>>, machineIdentifier |-> "none", protocolCapabilities |-> {},
     timeline |-> NoTimeline]

Session(player, title, type, viewOffset, duration) ==
    [has_player |-> player # NoPlayer, player |-> player, title |-> title, type |-> type,
     viewOffset |-> viewOffset, duration |-> duration]

Section(title, type, key, totalSize) ==
    [title |-> title, type |-> type, key |-> key, totalSize |-> totalSize]

SectionMovies == Section(<<"M", "o", "v">>, "movie", 1, 2)
SectionShows == Section(<<"S", "h", "o", "w">>, "show", 2, 2)
SectionMusic == Section(<<"M", "u", "s">>, "artist", 3, 1)
SectionPhotos == Section(<<"P", "i", "c">>, "photo", 4, 0)

Media(title, type, ratingKey, section, addedAt, viewCount) ==
    [title |-> title, type |-> type, ratingKey |-> ratingKey, section |-> section,
     addedAt |-> addedAt, viewCount |-> viewCount]

TitleFilm == <<"F", "i", "l", "m">>
TitleDup == <<"D", "u", "p">>
TitlePilot == <<"P", "i", "l">>

MediaFilm == Media(TitleFilm, "movie", 11, SectionMovies.title, 300, 2)
MediaDupMovie == Media(TitleDup, "movie", 12, SectionMovies.title, 100, 0)
MediaDupShow == Media(TitleDup, "show", 13, SectionShows.title, 400, 1)
MediaPilot == Media(TitlePilot, "show", 14, SectionShows.title, 200, 0)
MediaSaga == Media(<<"S", "a", "g", "a">>, "show", 15, SectionShows.title, 400, 3)
MediaBand == Media(<<"B", "a", "n", "d">>, "artist", 16, SectionMusic.title, 50, 4)

Collection(title, ratingKey, section, items, labels) ==
    [title |-> title, ratingKey |-> ratingKey, section |-> section, items |-> items,
     labels |-> labels, titleSort |-> <<>>, summary |-> <<>>, contentRating |-> <<>>]

TitleFav == <<"F", "a", "v">>

CollectionFav == Collection(TitleFav, 21, SectionMovies.title, <<11>>, {"a"})
CollectionFavAgain == Collection(TitleFav, 22, SectionMovies.title, <<>>, {})
CollectionShows == Collection(<<"B", "e", "s", "t">>, 23, SectionShows.title, <<14, 13>>, {})

NoCollection == Collection(<<>>, 0, <<>>, <<>>, {})

PlexEmpty ==
    [clients |-> <<>>, sessions |-> <<>>, sections |-> <<>>, media |-> <<>>,
     collections |-> <<>>]

PlexTwoClients ==
    [clients |-> <<ClientTV, ClientPhone>>, sessions |-> <<>>,
     sections |-> <<SectionMovies, SectionShows>>,
     media |-> <<MediaFilm, MediaDupMovie, MediaDupShow, MediaPilot>>,
     collections |-> <<CollectionFav, CollectionShows>>]

PlexSessions ==
    [clients |-> <<ClientTV, ClientTV2>>,
     sessions |-> <<Session(PlayerTV, "Film", "movie", 30000, 120000),
                    Session(PlayerTablet, "Pilot", "episode", 0, 0),
                    Session(NoPlayer, "Song", "track", 10, 100)>>,
     sections |-> <<SectionMovies, SectionShows, SectionMusic, SectionPhotos>>,
     media |-> <<MediaDupShow, MediaFilm, MediaPilot, MediaSaga, MediaBand>>,
     collections |-> <<CollectionFav, CollectionFavAgain>>]

PlexSessionOnly ==
    [clients |-> <<ClientPhone>>,
     sessions |-> <<Session(PlayerTablet, "Film", "movie", 30000, 120000),
                    Session(PlayerTablet, "Pilot", "episode", 500, 1000),
                    Session(PlayerPhone, "Song", "track", 10, 100)>>,
     sections |-> <<SectionMusic>>,
     media |-> <<MediaBand>>, collections |-> <<>>]

MaxListed == 10    \* `results[:10]`

\* a server without clients whose search for one title finds one item more
\* than a reply lists
PlexMany ==
    [clients |-> <<>>, sessions |-> <<>>,
     sections |-> <<SectionMovies>>,
     media |-> [i \in 1..(MaxListed + 1) |->
                   Media(TitleDup, "movie", 30 + i, SectionMovies.title, 100 + i, 0)]
               \o <<MediaFilm>>,
     collections |-> <<>>]

\* `for s in all_sections: if s.title.lower() == library_name.lower(): ... break`
\* the position of the first match, 0 when the loop ends without one
find_section(all_sections, library_name) ==
    LET hits == {i \in DOMAIN all_sections :
                    lower(all_sections[i].title) = lower(library_name)} IN
    IF hits = {} THEN 0 ELSE CHOOSE i \in hits : \A j \in hits : i <= j

PlexServers == {PlexEmpty, PlexTwoClients, PlexSessions, PlexSessionOnly, PlexMany}

NoTool ==
    [name |-> "none", pc |-> "idle", faults |-> {}, st |-> "none", ret |-> NoRet,
     exc |-> NoExc, calls |-> <<>>, items |-> <<>>]

IdleTools ==
    /\ plex = PlexEmpty
    /\ tool = NoTool

\* The handler returned (or let an exception escape): the invocation is over.
Finish(name, params, k) ==
    /\ tool' = [name |-> name, args |-> params, pc |-> "done", faults |-> k.faults,
                st |-> k.st, ret |-> k.ret, exc |-> k.exc, calls |-> k.calls,
                items |-> k.items]
    /\ UNCHANGED <<plex, http_vars, main_vars, script_vars>>

\* The protocol server sends the result to the caller; nothing of the
\* invocation outlives it (the handlers keep their data in locals).
tool_returns ==
    /\ tool.pc = "done"
    /\ tool' = NoTool
    /\ UNCHANGED <<plex, http_vars, main_vars, script_vars>>

(***************************************************************************)
(* modules/client.py                                                       *)
(***************************************************************************)
\* `for session in sessions: if session and hasattr(session, "player") and
\* session.player: session_clients.append(session.player)`
session_players(sessions) ==
    LET idx == {i \in DOMAIN sessions : sessions[i].has_player}
        RECURSIVE collect(_)
        collect(i) ==
            IF i > Len(sessions) THEN <<>>
            ELSE IF i \in idx THEN <<sessions[i].player>> \o collect(i + 1)
            ELSE collect(i + 1)
    IN collect(1)

\* a combination that appends every session player
combine_clients_all(all_clients, client_ids, session_clients) ==
    all_clients \o session_clients

\* client.py:61-67: the server's clients, then the session players whose
\* machineIdentifier has not been seen yet
RECURSIVE combine_clients(_, _, _)
combine_clients(all_clients, client_ids, session_clients) ==
    IF session_clients = <<>> THEN all_clients
    ELSE LET client == Head(session_clients) IN
         IF client.machineIdentifier \notin client_ids
         THEN combine_clients(Append(all_clients, client),
                              client_ids \cup {client.machineIdentifier},
                              Tail(session_clients))
         ELSE combine_clients(all_clients, client_ids, Tail(session_clients))

ClientInfoKwargs ==
    {"name", "device", "model", "product", "version", "platform", "state",
     "machineIdentifier", "address", "protocolCapabilities"}

ClientListKwargs == {"status", "message", "count", "clients"}

client_list(include_details, px, faults) ==
    LET k1 == connect_to_plex(Begin(px, faults))
        k2 == Call(k1, "plex.clients", <<>>)
        k3 == Call(k2, "plex.sessions", <<>>)
        clients == px.clients
        all_clients ==
            combine_clients(clients,
                            {clients[i].machineIdentifier : i \in DOMAIN clients},
                            session_players(px.sessions))
        k4 == IF all_clients = <<>>
              THEN ReturnModel(k3, "ClientListResponse", ClientListKwargs,
                       [model |-> "ClientListResponse", status |-> "success",
                        prefix |-> "No clients currently connected to your Plex server.",
                        detail |-> "", count |-> 0, clients |-> <<>>])
              ELSE k3
        k5 == IF include_details THEN Construct(k4, "ClientInfo", ClientInfoKwargs) ELSE k4
        result ==
            IF include_details
            THEN [i \in DOMAIN all_clients |->
                    [name |-> all_clients[i].title,
                     machineIdentifier |-> all_clients[i].machineIdentifier]]
            ELSE [i \in DOMAIN all_clients |-> all_clients[i].title]
        k6 == ReturnModel(k5, "ClientListResponse", ClientListKwargs,
                  [model |-> "ClientListResponse", status |-> "success",
                   prefix |-> "Found connected clients", detail |-> "",
                   count |-> Len(all_clients), clients |-> result])
    IN ExceptReturnError(k6, "Exception", "Error listing clients: ")

tool_client_list ==
    /\ tool.pc = "idle"
    /\ \E include_details \in BOOLEAN,
          faults \in FaultPlans({}, {"connect_to_plex", "plex.clients", "plex.sessions"}, {}) :
         Finish("client_list", [include_details |-> include_details],
                client_list(include_details, plex, faults))


NoClientFound == ErrorResponse("No client found matching", "")

\* client.py:141-160 and 222-241: plex.client(name), and on NotFound the first
\* regular client, else the first session player, whose lower-cased title
\* contains the lower-cased name
find_client_or_player(k, client_name, px) ==
    LET clients == px.clients
        players == session_players(px.sessions)
        exact == {i \in DOMAIN clients : clients[i].title = client_name}
        matching_clients ==
            {i \in DOMAIN clients : contains(lower(client_name), lower(clients[i].title))}
        matching_session_clients ==
            {i \in DOMAIN players : contains(lower(client_name), lower(players[i].title))}
        k1 == CallOr(k, "plex.client", <<client_name>>,
                     IF exact = {} THEN "NotFound" ELSE "none")
    IN IF k.st # "run" THEN [k |-> k, client |-> NoPlayer]
       ELSE IF k1.st = "run" /\ exact # {} THEN [k |-> k1, client |-> clients[First(exact)]]
       ELSE IF ~Caught(k1, "NotFound") THEN [k |-> k1, client |-> NoPlayer]
       ELSE IF matching_clients # {}
            THEN [k |-> Handled(k1), client |-> clients[First(matching_clients)]]
       ELSE IF matching_session_clients # {}
            THEN [k |-> Handled(k1), client |-> players[First(matching_session_clients)]]
       ELSE [k |-> Return(Handled(k1), NoClientFound), client |-> NoPlayer]

client_get_details(client_name, px, faults) ==
    LET k1 == connect_to_plex(Begin(px, faults))
        k2 == Call(k1, "plex.clients", <<>>)
        k3 == Call(k2, "plex.sessions", <<>>)
        found == find_client_or_player(k3, client_name, px)
        k4 == ReturnModel(found.k, "ClientDetailsResponse", {"status", "client"},
                  [model |-> "ClientDetailsResponse", status |-> "success", prefix |-> "",
                   detail |-> "",
                   client |-> [name |-> found.client.title,
                               machineIdentifier |-> found.client.machineIdentifier]])
    IN ExceptReturnError(k4, "Exception", "Error getting client details: ")

\* the sessions whose player has the client's machineIdentifier
sessions_of(client, sessions) ==
    {i \in DOMAIN sessions :
        sessions[i].has_player
        /\ sessions[i].player.machineIdentifier = client.machineIdentifier}

\* a timeline built from the last session of the client
session_timeline_last(k, client, sessions) ==
    LET mine == sessions_of(client, sessions)
        session == sessions[CHOOSE i \in mine : \A j \in mine : j <= i] IN
    ReturnModel(k, "ClientTimelineResponse",
        {"status", "client_name", "source", "timeline"},
        [model |-> "ClientTimelineResponse", status |-> "success", prefix |-> "",
         detail |-> "", client_name |-> client.title, source |-> "session",
         timeline |-> [time |-> session.viewOffset, duration |-> session.duration,
                       title |-> session.title]])

\* client.py:251-276 and 307-335: the first session of the client as timeline
session_timeline(k, client, sessions) ==
    LET session == sessions[First(sessions_of(client, sessions))] IN
    ReturnModel(k, "ClientTimelineResponse",
        {"status", "client_name", "source", "timeline"},
        [model |-> "ClientTimelineResponse", status |-> "success", prefix |-> "",
         detail |-> "", client_name |-> client.title, source |-> "session",
         timeline |-> [time |-> session.viewOffset, duration |-> session.duration,
                       title |-> session.title]])

\* client.py:265-342: the timeline of the client found; without one, or when
\* reading it raises, the session of the client stands in for it
timeline_of(found, sessions) ==
    LET client == found.client
        has_session == sessions_of(client, sessions) # {}
        k4 == Call(found.k, "client.timeline", <<client.title>>)
        k5 == IF ~client.timeline.present
              THEN IF has_session
                   THEN session_timeline(k4, client, sessions)
                   ELSE ReturnModel(k4, "ClientTimelineResponse",
                            {"status", "message", "client_name"},
                            [model |-> "ClientTimelineResponse", status |-> "info",
                             prefix |-> "Client is not currently playing any media.",
                             detail |-> "", client_name |-> client.title,
                             source |-> "none"])
              ELSE ReturnModel(k4, "ClientTimelineResponse",
                       {"status", "client_name", "source", "timeline"},
                       [model |-> "ClientTimelineResponse", status |-> "success",
                        prefix |-> "", detail |-> "", client_name |-> client.title,
                        source |-> "timeline",
                        timeline |-> [time |-> client.timeline.time,
                                      duration |-> client.timeline.duration,
                                      title |-> "none"]])
        k6 == IF Caught(k5, "Exception")
              THEN IF has_session
                   THEN session_timeline(Handled(k5), client, sessions)
                   ELSE ReturnModel(Handled(k5), "ClientTimelineResponse",
                            {"status", "message", "client_name"},
                            [model |-> "ClientTimelineResponse", status |-> "warning",
                             prefix |-> "Unable to get timeline information for client",
                             detail |-> "", client_name |-> client.title,
                             source |-> "none"])
              ELSE k5
    IN InTry(found.k, k6)

client_get_timelines(client_name, px, faults) ==
    LET k1 == connect_to_plex(Begin(px, faults))
        k2 == Call(k1, "plex.clients", <<>>)
        k3 == Call(k2, "plex.sessions", <<>>)
        found == find_client_or_player(k3, client_name, px)
    IN ExceptReturnError(timeline_of(found, px.sessions), "Exception",
                         "Error getting client timeline: ")

ActiveClientsKwargs == {"status", "message", "count", "active_clients"}

client_get_active(px, faults) ==
    LET k1 == connect_to_plex(Begin(px, faults))
        sessions == px.sessions
        k2 == Call(k1, "plex.sessions", <<>>)
        k3 == IF sessions = <<>>
              THEN ReturnModel(k2, "ActiveClientsResponse", ActiveClientsKwargs,
                       [model |-> "ActiveClientsResponse", status |-> "success",
                        prefix |-> "No active playback sessions found.", detail |-> "",
                        count |-> 0, active_clients |-> <<>>])
              ELSE k2
        players == session_players(sessions)
        active_clients == [i \in DOMAIN players |-> players[i].title]
        k4 == ReturnModel(k3, "ActiveClientsResponse", ActiveClientsKwargs,
                  [model |-> "ActiveClientsResponse", status |-> "success",
                   prefix |-> "Found active clients", detail |-> "",
                   count |-> Len(active_clients), active_clients |-> active_clients])
    IN ExceptReturnError(k4, "Exception", "Error getting active clients: ")

\* Optional arguments: None is the empty tuple, a value v is <<v>>.
None == <<>>
Some(v) == <<v>>

\* client.py:522-530, 652-659, 787-794, 863-870: plex.client(name), and on
\* NotFound the first client of a fresh plex.clients() whose lower-cased title
\* contains the lower-cased name
find_client(k, client_name, px) ==
    LET clients == px.clients
        exact == {i \in DOMAIN clients : clients[i].title = client_name}
        matching_clients ==
            {i \in DOMAIN clients : contains(lower(client_name), lower(clients[i].title))}
        k1 == CallOr(k, "plex.client", <<client_name>>,
                     IF exact = {} THEN "NotFound" ELSE "none")
        k2 == Call(Handled(k1), "plex.clients", <<>>)
    IN IF k.st # "run" THEN [k |-> k, client |-> NoPlayer]
       ELSE IF k1.st = "run" /\ exact # {} THEN [k |-> k1, client |-> clients[First(exact)]]
       ELSE IF ~Caught(k1, "NotFound") THEN [k |-> k1, client |-> NoPlayer]
       ELSE IF k2.st # "run" THEN [k |-> k2, client |-> NoPlayer]
       ELSE IF matching_clients # {}
            THEN [k |-> k2, client |-> clients[First(matching_clients)]]
       ELSE [k |-> Return(k2, NoClientFound), client |-> NoPlayer]

\* plex.search(title) and section.search(title=title): the items whose title
\* contains the text, whatever the case
search(media, media_title) ==
    SelectSeq(media, LAMBDA m : contains(lower(media_title), lower(m.title)))

section_search(media, section, media_title) ==
    SelectSeq(media, LAMBDA m : /\ contains(lower(media_title), lower(m.title))
                                /\ m.section = section.title)

\* client.py:469-476: the search in the library of the name (any failure of
\* it is "Library not found"), or in every library
media_search(k, media_title, library_name, px) ==
    LET n == find_section(px.sections, library_name)
        k2 == CallOr(k, "plex.library.section", <<library_name>>,
                     IF n = 0 THEN "NotFound" ELSE "none")
        k3 == Call(k2, "library.search", <<media_title>>)
    IN IF library_name # <<>>
       THEN InTry(k, ExceptReturnFixed(k3, "Exception", "Library not found"))
       ELSE Call(k, "plex.search", <<media_title>>)

\* one_result without the reply for several results: the first one is played
one_result_takes_first(k, results) ==
    ReturnWhen(k, results = <<>>, ErrorResponse("No media found matching", ""))

\* client.py:478-512: no result is an error, several are listed
one_result(k, results) ==
    LET listed == SubSeq(results, 1, IF Len(results) < MaxListed THEN Len(results)
                                     ELSE MaxListed)
    IN ReturnModelWhen(ReturnWhen(k, results = <<>>,
                                  ErrorResponse("No media found matching", "")),
           Len(results) > 1, "PlaybackResponse",
           {"status", "message", "count", "results"},
           [model |-> "PlaybackResponse", status |-> "multiple_results",
            prefix |-> "Multiple items found matching", detail |-> "",
            count |-> Len(results),
            results |-> [i \in DOMAIN listed |-> listed[i].ratingKey]])

\* client.py:517-539: without a client name the clients are offered
client_selection(k, client_name, px) ==
    LET k1 == CallWhen(k, client_name = <<>>, "plex.clients", <<>>)
    IN IF client_name = <<>>
       THEN IF px.clients = <<>>
            THEN ReturnModel(k1, "PlaybackResponse", {"status", "message"},
                     [model |-> "PlaybackResponse", status |-> "error",
                      prefix |-> "No clients are currently connected to your Plex server.",
                      detail |-> ""])
            ELSE ReturnModel(k1, "PlaybackResponse",
                     {"status", "message", "available_clients"},
                     [model |-> "PlaybackResponse", status |-> "client_selection",
                      prefix |-> "Please specify a client to play on",
                      detail |-> "",
                      available_clients |->
                          [i \in DOMAIN px.clients |-> px.clients[i].title]])
       ELSE k1

\* client.py:553-589: the media is played on the client found
play_on(found, media, offset, use_external_player) ==
    LET client == found.client
        k1 == IF use_external_player
              THEN IF "Player" \in client.protocolCapabilities
                   THEN Call(found.k, "media.playOn", <<media.ratingKey, client.title>>)
                   ELSE ReturnModel(found.k, "PlaybackResponse", {"status", "message"},
                            [model |-> "PlaybackResponse", status |-> "error",
                             prefix |-> "Client does not support external player",
                             detail |-> ""])
              ELSE Call(found.k, "client.playMedia",
                        <<client.title, media.ratingKey, offset>>)
        k2 == ReturnModel(k1, "PlaybackResponse",
                  {"status", "message", "media", "client", "offset"},
                  [model |-> "PlaybackResponse", status |-> "success",
                   prefix |-> "Started playback", detail |-> "",
                   media |-> media.ratingKey, client |-> client.title,
                   offset |-> offset])
    IN InTry(found.k, ExceptReturnError(k2, "Exception", "Error starting playback: "))

client_start_playback(media_title, client_name, offset, library_name, use_external_player, px, faults) ==
    LET k1 == connect_to_plex(Begin(px, faults))
        n == find_section(px.sections, library_name)
        results == IF library_name = <<>> THEN search(px.media, media_title)
                   ELSE IF n = 0 THEN <<>>
                   ELSE section_search(px.media, px.sections[n], media_title)
        k2 == one_result(media_search(k1, media_title, library_name, px), results)
        found == find_client(client_selection(k2, client_name, px), client_name, px)
    IN ExceptReturnError(play_on(found, results[1], offset, use_external_player),
                         "Exception", "Error setting up playback: ")

valid_actions ==
    {"play", "pause", "stop", "skipNext", "skipPrevious", "stepForward", "stepBack",
     "seekTo", "seekForward", "seekBack", "mute", "unmute", "setVolume"}

actions_needing_parameter == {"seekTo", "setVolume"}

valid_media_types == {"video", "music", "photo"}

DefaultSeekSeconds == 30
MillisPerSecond == 1000
MaxVolume == 100

max(a, b) == IF a >= b THEN a ELSE b

\* a seekBack that passes the difference as it is
seek_back_position_unclamped(time, seconds) == time - (seconds * MillisPerSecond)

\* client.py:695-697: seek_time = max(0, client.timeline.time - (seconds * 1000))
seek_back_position(time, seconds) == max(0, time - (seconds * MillisPerSecond))

\* client.py:692: client.timeline.time + (seconds * 1000)
seek_forward_position(time, seconds) == time + (seconds * MillisPerSecond)

\* a setVolume that passes any parameter on
set_volume_unchecked(k, client, parameter) ==
    IF parameter = None
    THEN Return(k, ErrorResponse("Volume parameter is required", ""))
    ELSE Call(k, "client.setVolume", <<client.title, parameter[1]>>)

\* client.py:704-710: the volume is set when it is given and within 0..100
set_volume(k, client, parameter) ==
    IF parameter = None
    THEN Return(k, ErrorResponse("Volume parameter is required", ""))
    ELSE IF parameter[1] < 0 \/ parameter[1] > MaxVolume
    THEN Return(k, ErrorResponse("Volume must be between 0 and 100", ""))
    ELSE Call(k, "client.setVolume", <<client.title, parameter[1]>>)

\* client.py:667-709: the command of the action
perform_action(k, client, action, parameter) ==
    LET seconds == IF parameter # None THEN parameter[1] ELSE DefaultSeekSeconds
        k1 == Call(k, "client.timeline", <<client.title>>)
        k2 == IF client.timeline.present THEN k1
              ELSE Raise(k1, "AttributeError", "'NoneType' object has no attribute 'time'")
    IN CASE action = "seekTo" ->
              Call(k, "client.seekTo", <<client.title, parameter[1]>>)
         [] action = "seekForward" ->
              Call(k2, "client.seekTo",
                   <<client.title, seek_forward_position(client.timeline.time, seconds)>>)
         [] action = "seekBack" ->
              Call(k2, "client.seekTo",
                   <<client.title, seek_back_position(client.timeline.time, seconds)>>)
         [] action = "setVolume" -> set_volume(k, client, parameter)
         [] action = "play" -> Call(k, "client.play", <<client.title>>)
         [] action = "pause" -> Call(k, "client.pause", <<client.title>>)
         [] action = "stop" -> Call(k, "client.stop", <<client.title>>)
         [] action = "skipNext" -> Call(k, "client.skipNext", <<client.title>>)
         [] action = "skipPrevious" -> Call(k, "client.skipPrevious", <<client.title>>)
         [] action = "stepForward" -> Call(k, "client.stepForward", <<client.title>>)
         [] action = "stepBack" -> Call(k, "client.stepBack", <<client.title>>)
         [] action = "mute" -> Call(k, "client.mute", <<client.title>>)
         [] action = "unmute" -> Call(k, "client.unmute", <<client.title>>)
         [] OTHER -> k

\* a handler that sends the command to any client found
playback_capable_unchecked(found) == found.k

\* client.py:660-664: a client without the playback capability is an error
playback_capable(found) ==
    ReturnWhen(found.k, "playback" \notin found.client.protocolCapabilities,
               ErrorResponse("Client does not support playback control.", ""))

\* client.py:666-730: the command is sent and the timeline is read again
\* (time.sleep(0.5) before; a failure of that read is ignored)
control_found(found, action, parameter) ==
    LET client == found.client
        k5 == playback_capable(found)
        k6 == perform_action(k5, client, action, parameter)
        k7 == Call(k6, "client.timeline", <<client.title>>)
        k8 == InTry(k6, ExceptPass(k7, "Exception"))
        timeline_data ==
            IF k7.st = "run" /\ client.timeline.present
            THEN Some([state |-> client.timeline.state, time |-> client.timeline.time,
                       duration |-> client.timeline.duration])
            ELSE None
        k9 == ReturnModel(k8, "SuccessResponse",
                  {"status", "message", "action", "client", "parameter", "timeline"},
                  [model |-> "SuccessResponse", status |-> "success",
                   prefix |-> "Successfully performed action", detail |-> "",
                   action |-> action, client |-> client.title, parameter |-> parameter,
                   timeline |-> timeline_data])
    IN InTry(k5, ExceptReturnError(k9, "Exception", "Error controlling playback: "))

client_control_playback(client_name, action, parameter, media_type, px, faults) ==
    LET k1 == connect_to_plex(Begin(px, faults))
        k2 == ReturnWhen(k1, action \notin valid_actions, ErrorResponse("Invalid action", ""))
        k3 == ReturnWhen(k2, action \in actions_needing_parameter /\ parameter = None,
                  ErrorResponse("Action requires a parameter value.", ""))
        k4 == ReturnWhen(k3, media_type \notin valid_media_types,
                  ErrorResponse("Invalid media type", ""))
        found == find_client(k4, client_name, px)
    IN ExceptReturnError(control_found(found, action, parameter), "Exception",
                         "Error setting up playback control: ")

valid_navigation_actions ==
    {"moveUp", "moveDown", "moveLeft", "moveRight", "select", "back", "home",
     "contextMenu"}

\* client.py:804-819: the client method of a navigation action
NavigationOp(action) ==
    CASE action = "moveUp" -> "client.moveUp"
      [] action = "moveDown" -> "client.moveDown"
      [] action = "moveLeft" -> "client.moveLeft"
      [] action = "moveRight" -> "client.moveRight"
      [] action = "select" -> "client.select"
      [] action = "back" -> "client.goBack"
      [] action = "home" -> "client.goToHome"
      [] action = "contextMenu" -> "client.contextMenu"
      [] OTHER -> "none"

\* client.py:795-826: the capability is checked and the command is sent
navigate_found(found, action) ==
    LET client == found.client
        k3 == ReturnWhen(found.k, "navigation" \notin client.protocolCapabilities,
                  ErrorResponse("Client does not support navigation control.", ""))
        k4 == Call(k3, NavigationOp(action), <<client.title>>)
        k5 == ReturnModel(k4, "SuccessResponse", {"status", "message", "action", "client"},
                  [model |-> "SuccessResponse", status |-> "success",
                   prefix |-> "Successfully performed navigation action", detail |-> "",
                   action |-> action, client |-> client.title])
    IN InTry(k3, ExceptReturnError(k5, "Exception", "Error navigating client: "))

client_navigate(client_name, action, px, faults) ==
    LET k1 == connect_to_plex(Begin(px, faults))
        k2 == ReturnWhen(k1, action \notin valid_navigation_actions,
                         ErrorResponse("Invalid navigation action", ""))
        found == find_client(k2, client_name, px)
    IN ExceptReturnError(navigate_found(found, action), "Exception",
                         "Error setting up client navigation: ")

\* playing_check that takes any timeline for a playing one
playing_check_any_timeline(k, client, px) ==
    LET k1 == Call(k, "client.timeline", <<client.title>>)
        k2 == Call(k1, "plex.sessions", <<>>)
    IN InTry(k, ExceptReturnFixed(
                    IF ~client.timeline.present
                    THEN ReturnWhen(k2, sessions_of(client, px.sessions) = {},
                             ErrorResponse("Client is not currently playing any media.", ""))
                    ELSE k1,
                    "Exception", "Unable to get playback status for client"))

\* client.py:870-893: the client must be playing by its timeline or by an
\* active session; a failure of the check is "Unable to get playback status"
playing_check(k, client, px) ==
    LET k1 == Call(k, "client.timeline", <<client.title>>)
        k2 == Call(k1, "plex.sessions", <<>>)
    IN InTry(k, ExceptReturnFixed(
                    IF ~client.timeline.present \/ client.timeline.state # "playing"
                    THEN ReturnWhen(k2, sessions_of(client, px.sessions) = {},
                             ErrorResponse("Client is not currently playing any media.", ""))
                    ELSE k1,
                    "Exception", "Unable to get playback status for client"))

\* client.py:896-928: the streams given are set: audio, subtitle, video
set_streams_of(k, client, audio_stream_id, subtitle_stream_id, video_stream_id) ==
    LET k1 == CallWhen(k, audio_stream_id # None,
                       "client.setAudioStream", <<client.title, audio_stream_id[1]>>)
        k2 == CallWhen(k1, subtitle_stream_id # None,
                       "client.setSubtitleStream", <<client.title, subtitle_stream_id[1]>>)
        k3 == CallWhen(k2, video_stream_id # None,
                       "client.setVideoStream", <<client.title, video_stream_id[1]>>)
        k4 == ReturnModel(k3, "SuccessResponse", {"status", "message", "client", "changes"},
                  [model |-> "SuccessResponse", status |-> "success",
                   prefix |-> "Successfully set streams", detail |-> "",
                   client |-> client.title,
                   changes |-> [audio_stream |-> audio_stream_id,
                                subtitle_stream |-> subtitle_stream_id,
                                video_stream |-> video_stream_id]])
    IN InTry(k, ExceptReturnError(k4, "Exception", "Error setting streams: "))

\* client.py:870-928: the streams are set on the client found when it plays
set_streams_found(found, audio_stream_id, subtitle_stream_id, video_stream_id, px) ==
    set_streams_of(playing_check(found.k, found.client, px), found.client,
                   audio_stream_id, subtitle_stream_id, video_stream_id)

client_set_streams(client_name, audio_stream_id, subtitle_stream_id, video_stream_id, px, faults) ==
    LET k1 == connect_to_plex(Begin(px, faults))
        k2 == ReturnModelWhen(k1, audio_stream_id = None /\ subtitle_stream_id = None
                                  /\ video_stream_id = None,
                  "SuccessResponse", {"status", "message"},
                  [model |-> "SuccessResponse", status |-> "error",
                   prefix |-> "At least one stream ID (audio, subtitle, or video) must be provided.",
                   detail |-> ""])
        found == find_client(k2, client_name, px)
    IN ExceptReturnError(set_streams_found(found, audio_stream_id, subtitle_stream_id,
                                           video_stream_id, px),
                         "Exception", "Error setting up stream selection: ")

\* client names a request may carry: exact, other case, a session player,
\* unknown, empty, a paused client
ClientNames ==
    {<<"T", "V">>, <<"p", "H">>, <<"T", "a", "b">>, <<"X">>, <<>>, <<"T", "V", "2">>}

ClientLookupOps == {"connect_to_plex", "plex.clients", "plex.sessions", "plex.client"}

tool_client_get_details ==
    /\ tool.pc = "idle"
    /\ \E client_name \in ClientNames, faults \in FaultPlans({"plex.client"}, ClientLookupOps, {}) :
         Finish("client_get_details", [client_name |-> client_name],
                client_get_details(client_name, plex, faults))

tool_client_get_timelines ==
    /\ tool.pc = "idle"
    /\ \E client_name \in ClientNames,
          faults \in FaultPlans({"plex.client"}, ClientLookupOps \cup {"client.timeline"}, {}) :
         Finish("client_get_timelines", [client_name |-> client_name],
                client_get_timelines(client_name, plex, faults))

tool_client_get_active ==
    /\ tool.pc = "idle"
    /\ \E faults \in FaultPlans({}, {"connect_to_plex", "plex.sessions"}, {}) :
         Finish("client_get_active", [none |-> TRUE], client_get_active(plex, faults))

\* library names a request may carry: exact, other case, unknown, empty
LibraryNames == {<<"M", "o", "v">>, <<"s", "H", "O", "W">>, <<"X">>, <<>>}
ScanPaths == {<<>>, <<"/", "a">>}

MediaTitles == {TitleFilm, <<"d", "u", "p">>, <<"P", "i">>, <<"Z">>}
Offsets == {0, 5000}
PlaybackActions == valid_actions \cup {"rewind"}
Parameters == {None, Some(-1), Some(0), Some(5), Some(100), Some(101)}
MediaTypes == {"video", "tv"}
NavigationActions == valid_navigation_actions \cup {"jump"}
StreamIds == {None, Some("1")}

\* the client command an action of client_control_playback sends
CommandOp(action) ==
    CASE action \in {"seekTo", "seekForward", "seekBack"} -> "client.seekTo"
      [] action = "play" -> "client.play"
      [] action = "pause" -> "client.pause"
      [] action = "stop" -> "client.stop"
      [] action = "skipNext" -> "client.skipNext"
      [] action = "skipPrevious" -> "client.skipPrevious"
      [] action = "stepForward" -> "client.stepForward"
      [] action = "stepBack" -> "client.stepBack"
      [] action = "mute" -> "client.mute"
      [] action = "unmute" -> "client.unmute"
      [] action = "setVolume" -> "client.setVolume"
      [] OTHER -> "none"

tool_client_start_playback ==
    /\ tool.pc = "idle"
    /\ \E media_title \in MediaTitles, client_name \in ClientNames, offset \in Offsets,
          library_name \in LibraryNames, use_external_player \in BOOLEAN,
          faults \in FaultPlans({"plex.client"},
                                {"connect_to_plex", "plex.library.section",
                                 "library.search", "plex.search", "plex.clients",
                                 "plex.client", "media.playOn", "client.playMedia"}, {}) :
         Finish("client_start_playback",
                [media_title |-> media_title, client_name |-> client_name,
                 offset |-> offset, library_name |-> library_name,
                 use_external_player |-> use_external_player],
                client_start_playback(media_title, client_name, offset, library_name,
                                      use_external_player, plex, faults))

tool_client_control_playback ==
    /\ tool.pc = "idle"
    /\ \E client_name \in ClientNames, action \in PlaybackActions,
          parameter \in Parameters, media_type \in MediaTypes :
         \E faults \in FaultPlans({"plex.client"},
                                  {"connect_to_plex", "plex.client", "plex.clients",
                                   CommandOp(action)} \ {"none"},
                                  {"client.timeline"}) :
             Finish("client_control_playback",
                    [client_name |-> client_name, action |-> action,
                     parameter |-> parameter, media_type |-> media_type],
                    client_control_playback(client_name, action, parameter, media_type,
                                            plex, faults))

tool_client_navigate ==
    /\ tool.pc = "idle"
    /\ \E client_name \in ClientNames, action \in NavigationActions :
         \E faults \in FaultPlans({"plex.client"},
                                  {"connect_to_plex", "plex.client", "plex.clients",
                                   NavigationOp(action)} \ {"none"}, {}) :
             Finish("client_navigate", [client_name |-> client_name, action |-> action],
                    client_navigate(client_name, action, plex, faults))

tool_client_set_streams ==
    /\ tool.pc = "idle"
    /\ \E client_name \in ClientNames, audio_stream_id \in StreamIds,
          subtitle_stream_id \in StreamIds, video_stream_id \in StreamIds,
          faults \in FaultPlans({"plex.client"},
                                {"connect_to_plex", "plex.client", "plex.clients",
                                 "client.timeline", "plex.sessions",
                                 "client.setAudioStream", "client.setSubtitleStream",
                                 "client.setVideoStream"}, {}) :
         Finish("client_set_streams",
                [client_name |-> client_name, audio_stream_id |-> audio_stream_id,
                 subtitle_stream_id |-> subtitle_stream_id,
                 video_stream_id |-> video_stream_id],
                client_set_streams(client_name, audio_stream_id, subtitle_stream_id,
                                   video_stream_id, plex, faults))

(***************************************************************************)
(* modules/collection.py                                                   *)
(***************************************************************************)
\* the collections of a library section, in the server's order
collections_of(px, section) ==
    SelectSeq(px.collections, LAMBDA c : c.section = section.title)

\* plex.fetchItem(key): the media item or collection of that rating key
fetched(px, key) ==
    SelectSeq(px.media, LAMBDA m : m.ratingKey = key)
    \o SelectSeq(px.collections, LAMBDA c : c.ratingKey = key)

fetchItem(k, key, px) ==
    CallOr(k, "plex.fetchItem", <<key>>, IF fetched(px, key) = <<>> THEN "NotFound" ELSE "none")

\* plex.library.section(name)
library_section(k, library_name, px) ==
    CallOr(k, "plex.library.section", <<library_name>>,
           IF find_section(px.sections, library_name) = 0 THEN "NotFound" ELSE "none")

CollectionInfoKwargs == {"title", "summary", "is_smart", "ID", "items"}

\* collection.py:67-101: library.collections() of one library after the other
RECURSIVE list_collections(_, _, _)
list_collections(k, libraries, px) ==
    IF k.st # "run" \/ libraries = <<>> THEN k
    ELSE LET library == Head(libraries)
             k1 == Call(k, "section.collections", <<library.title>>)
             k2 == IF collections_of(px, library) # <<>>
                   THEN Construct(k1, "CollectionInfo", CollectionInfoKwargs) ELSE k1
             k3 == Construct(k2, "LibraryCollections",
                             {"type", "collections_count", "collections"})
         IN list_collections(k3, Tail(libraries), px)

collection_list(library_name, px, faults) ==
    LET k1 == connect_to_plex(Begin(px, faults))
        n == find_section(px.sections, library_name)
        k2 == library_section(k1, library_name, px)
        k3 == Call(k2, "section.collections", <<px.sections[n].title>>)
        k4 == IF k3.st = "run" /\ collections_of(px, px.sections[n]) # <<>>
              THEN Construct(k3, "CollectionInfo", CollectionInfoKwargs) ELSE k3
        k5 == ReturnModel(k4, "CollectionListResponse", {"collections"},
                  [model |-> "CollectionListResponse", status |-> "success",
                   prefix |-> "", detail |-> "",
                   collections |->
                       IF n = 0 THEN {}
                       ELSE {c.ratingKey : c \in Range(collections_of(px, px.sections[n]))}])
        k6 == IF library_name # <<>>
              THEN InTry(k1, ExceptReturnFixed(k5, "NotFound", "Library not found"))
              ELSE k1
        k7 == Call(k6, "plex.library.sections", <<>>)
        movie_libraries == SelectSeq(px.sections, LAMBDA x : x.type = "movie")
        show_libraries == SelectSeq(px.sections, LAMBDA x : x.type = "show")
        k8 == list_collections(k7, movie_libraries \o show_libraries, px)
        k9 == ReturnModel(k8, "CollectionListResponse", {"collections"},
                  [model |-> "CollectionListResponse", status |-> "success",
                   prefix |-> "", detail |-> "",
                   collections |->
                       {c.ratingKey : c \in {x \in Range(px.collections) :
                            \E l \in Range(movie_libraries \o show_libraries) :
                                x.section = l.title}}])
    IN ExceptReturnError(k9, "Exception", "")

\* collection.py:156-165 and 331-343: plex.fetchItem of every id; an id whose
\* fetch raises is recorded as not found
RECURSIVE fetch_items(_, _, _, _, _)
fetch_items(k, item_ids, px, items, not_found) ==
    IF k.st # "run" \/ item_ids = <<>>
    THEN [k |-> k, items |-> items, not_found |-> not_found]
    ELSE LET item_id == Head(item_ids)
             k1 == fetchItem(k, item_id, px)
         IN IF Caught(k1, "Exception")
            THEN fetch_items(Handled(k1), Tail(item_ids), px, items,
                             Append(not_found, item_id))
            ELSE fetch_items(k1, Tail(item_ids), px,
                             Append(items, fetched(px, item_id)[1]), not_found)

\* collection.py:167-193 and 361-392: library.search of every title; the first
\* result of the same title (whatever the case) is taken, other results are
\* possible matches, no result is not found
RECURSIVE search_titles(_, _, _, _, _, _, _)
search_titles(k, item_titles, library, px, items, not_found, possible_matches) ==
    IF k.st # "run" \/ item_titles = <<>>
    THEN [k |-> k, items |-> items, not_found |-> not_found,
          possible_matches |-> possible_matches]
    ELSE LET title == Head(item_titles)
             k1 == Call(k, "library.search", <<title>>)
             search_results == section_search(px.media, library, title)
             exact_matches == SelectSeq(search_results, LAMBDA m : lower(m.title) = lower(title))
         IN IF k1.st # "run"
            THEN [k |-> k1, items |-> items, not_found |-> not_found,
                  possible_matches |-> possible_matches]
            ELSE IF search_results = <<>>
            THEN search_titles(k1, Tail(item_titles), library, px, items,
                               Append(not_found, title), possible_matches)
            ELSE IF exact_matches # <<>>
            THEN search_titles(k1, Tail(item_titles), library, px,
                               Append(items, exact_matches[1]), not_found, possible_matches)
            ELSE search_titles(k1, Tail(item_titles), library, px, items, not_found,
                               possible_matches \o search_results)

\* collection.py:140-145: the library of the name, or "Library not found"
library_or_not_found(k, library_name, px) ==
    InTry(k, ExceptReturnFixed(library_section(k, library_name, px),
                               "NotFound", "Library not found"))

\* collection.py:147-154: a collection of the title already in the library is
\* an error; `except Exception: pass` around the look-up
no_existing_collection(k, library, collection_title, px) ==
    LET k1 == Call(k, "section.collections", <<library.title>>)
        k2 == ReturnWhen(k1, k1.st = "run"
                             /\ \E c \in Range(collections_of(px, library)) :
                                    lower(c.title) = lower(collection_title),
                         ErrorResponse("Collection already exists in library", ""))
    IN InTry(k, ExceptPass(k2, "Exception"))

\* collection.py:167-193: the titles are searched after the ids are fetched
search_titles_after(by_id, item_titles, library, px) ==
    search_titles(by_id.k, item_titles, library, px, by_id.items, by_id.not_found, <<>>)

\* collection.py:195-222: nothing found is an error (with the possible matches
\* when there are some), else the collection is created of the items found
create_collection_of(by_title, library, collection_title) ==
    LET items == by_title.items
        k1 == IF items = <<>> /\ by_title.possible_matches # <<>>
              THEN ReturnModel(Construct(by_title.k, "PossibleMatch",
                                         {"title", "id", "type", "year"}),
                       "CollectionCreateResponse", {"status", "possible_matches"},
                       [model |-> "CollectionCreateResponse", status |-> "error",
                        prefix |-> "", detail |-> "",
                        possible_matches |->
                            {m.ratingKey : m \in Range(by_title.possible_matches)}])
              ELSE by_title.k
        k2 == ReturnWhen(k1, items = <<>>,
                         ErrorResponse("No matching media items found for the collection", ""))
        k3 == Call(k2, "library.createCollection",
                   <<library.title, collection_title,
                     [i \in DOMAIN items |-> items[i].ratingKey]>>)
    IN ReturnModel(k3, "CollectionCreateResponse",
           {"created", "title", "id", "library", "items_added", "items_not_found"},
           [model |-> "CollectionCreateResponse", status |-> "success",
            prefix |-> "", detail |-> "", created |-> TRUE,
            title |-> collection_title, items_added |-> Len(items),
            items_not_found |-> by_title.not_found])

collection_create(collection_title, library_name, item_titles, item_ids, px, faults) ==
    LET k1 == connect_to_plex(Begin(px, faults))
        k2 == ReturnWhen(k1, item_titles = <<>> /\ item_ids = <<>>,
                  ErrorResponse("Either item_titles or item_ids must be provided", ""))
        library == px.sections[find_section(px.sections, library_name)]
        k3 == library_or_not_found(k2, library_name, px)
        k4 == no_existing_collection(k3, library, collection_title, px)
        by_id == fetch_items(k4, item_ids, px, <<>>, <<>>)
        by_title == search_titles_after(by_id, item_titles, library, px)
    IN ExceptReturnError(create_collection_of(by_title, library, collection_title),
                         "Exception", "")

\* collection.py:269-279: the sections of type movie or show are scanned for a
\* collection of the rating key; a section whose collections() raises is skipped
RECURSIVE scan_sections(_, _, _, _)
scan_sections(k, i, key, px) ==
    IF k.st # "run" \/ i > Len(px.sections)
    THEN [k |-> k, collection |-> NoCollection, library |-> 0]
    ELSE IF px.sections[i].type \notin {"movie", "show"}
    THEN scan_sections(k, i + 1, key, px)
    ELSE LET k1 == Call(k, "section.collections", <<px.sections[i].title>>)
             cs == SelectSeq(collections_of(px, px.sections[i]),
                             LAMBDA c : c.ratingKey = key)
         IN IF Caught(k1, "Exception") THEN scan_sections(Handled(k1), i + 1, key, px)
            ELSE IF cs # <<>> THEN [k |-> k1, collection |-> cs[1], library |-> i]
            ELSE scan_sections(k1, i + 1, key, px)

\* collection.py:264-281: plex.fetchItem(collection_id), and when it raises the
\* scan of the sections
collection_by_id(k, collection_id, px) ==
    LET k1 == fetchItem(k, collection_id, px)
        k2 == Call(Handled(k1), "plex.library.sections", <<>>)
    IN IF k.st # "run" THEN [k |-> k, collection |-> NoCollection, library |-> 0]
       ELSE IF Caught(k1, "Exception") THEN scan_sections(k2, 1, collection_id, px)
       ELSE [k |-> k1, collection |-> fetched(px, collection_id)[1], library |-> 0]

CollectionNotFoundById == ErrorResponse("Collection with ID not found", "")

\* collection.py:287-318: the collection of a title in a library
collection_by_title(k, collection_title, library_name, model, px) ==
    LET k1 == IF library_name = <<>>
              THEN Return(k, ErrorResponse("Library name is required", ""))
              ELSE k
        n == find_section(px.sections, library_name)
        k2 == InTry(k1, ExceptReturnFixed(library_section(k1, library_name, px),
                                          "NotFound", "Library not found"))
        k3 == Call(k2, "section.collections", <<px.sections[n].title>>)
        matching_collections ==
            IF n = 0 THEN <<>>
            ELSE SelectSeq(collections_of(px, px.sections[n]),
                           LAMBDA c : /\ collection_title # <<>>
                                      /\ lower(c.title) = lower(collection_title))
        k4 == IF matching_collections = <<>>
              THEN Return(k3, ErrorResponse("Collection not found in library", ""))
              ELSE k3
        k5 == IF Len(matching_collections) > 1
              THEN ReturnModel(k4, model, {"status", "multiple_collections"},
                       [model |-> model, status |-> "multiple_matches", prefix |-> "",
                        detail |-> "",
                        multiple_collections |->
                            {c.ratingKey : c \in Range(matching_collections)}])
              ELSE k4
    IN [k |-> k5,
        collection |-> IF k5.st = "run" THEN matching_collections[1] ELSE NoCollection,
        library |-> n]

\* collection.py:260-320: the collection by id when an id is given, else by title
find_collection(k, collection_title, collection_id, library_name, model, px) ==
    IF collection_id # 0
    THEN LET by_id == collection_by_id(k, collection_id, px)
             k1 == IF by_id.collection = NoCollection
                   THEN Return(by_id.k, CollectionNotFoundById) ELSE by_id.k
         IN [by_id EXCEPT
               !.k = InTry(k, ExceptReturnError(k1, "Exception",
                                                "Error fetching collection by ID: "))]
    ELSE collection_by_title(k, collection_title, library_name, model, px)

NoCollectionKey == ErrorResponse("Either collection_id or collection_title must be provided", "")

\* collection.py:345-362: the library is looked for when titles are given and
\* it is not known from the look-up of the collection
library_of_collection(k, found, item_titles, px) ==
    IF item_titles # <<>> /\ found.library = 0
    THEN scan_sections(Call(k, "plex.library.sections", <<>>), 1,
                       found.collection.ratingKey, px)
    ELSE [k |-> k, collection |-> found.collection, library |-> found.library]

\* collection.py:362-392: without a library the titles cannot be searched
search_in_library(scan, by_id, item_titles, px) ==
    search_titles(ReturnWhen(scan.k, item_titles # <<>> /\ scan.library = 0,
                      ErrorResponse("Could not determine which library to search in", "")),
                  item_titles, px.sections[scan.library], px,
                  by_id.items, by_id.not_found, <<>>)

\* collection.py:396-425: the items not yet in the collection are added
add_items_found(by_title, collection) ==
    LET current_item_ids == Range(collection.items)
        items_to_add ==
            SelectSeq(by_title.items, LAMBDA m : m.ratingKey \notin current_item_ids)
        already_in_collection ==
            SelectSeq(by_title.items, LAMBDA m : m.ratingKey \in current_item_ids)
        k1 == IF items_to_add = <<>> /\ by_title.possible_matches # <<>>
              THEN ReturnModel(Construct(by_title.k, "PossibleMatch",
                                         {"title", "id", "type", "year"}),
                       "CollectionAddResponse", {"status", "possible_matches"},
                       [model |-> "CollectionAddResponse", status |-> "error",
                        prefix |-> "", detail |-> "",
                        possible_matches |->
                            {m.ratingKey : m \in Range(by_title.possible_matches)}])
              ELSE by_title.k
        k2 == ReturnWhen(k1, items_to_add = <<>> /\ already_in_collection = <<>>,
                  ErrorResponse("No matching media items found to add to the collection", ""))
        k3 == CallWhen(k2, items_to_add # <<>>, "collection.addItems",
                       <<collection.ratingKey,
                         [i \in DOMAIN items_to_add |-> items_to_add[i].ratingKey]>>)
        k4 == Call(k3, "collection.items", <<collection.ratingKey>>)
    IN ReturnModel(k4, "CollectionAddResponse",
           {"added", "title", "items_added", "items_already_in_collection",
            "items_not_found", "total_items"},
           [model |-> "CollectionAddResponse", status |-> "success",
            prefix |-> "", detail |-> "", added |-> TRUE,
            title |-> collection.title,
            items_added |-> [i \in DOMAIN items_to_add |-> items_to_add[i].ratingKey],
            items_not_found |-> by_title.not_found])

\* collection.py:327-425: the items of the ids and of the titles are looked up
\* and added to the collection found
add_to_found(found, item_titles, item_ids, px) ==
    LET k1 == Call(found.k, "collection.items", <<found.collection.ratingKey>>)
        by_id == fetch_items(k1, item_ids, px, <<>>, <<>>)
        scan == library_of_collection(by_id.k, found, item_titles, px)
    IN add_items_found(search_in_library(scan, by_id, item_titles, px), found.collection)

collection_add_to(collection_title, collection_id, library_name, item_titles, item_ids, px, faults) ==
    LET k1 == connect_to_plex(Begin(px, faults))
        k2 == ReturnWhen(k1, collection_id = 0 /\ collection_title = <<>>, NoCollectionKey)
        k3 == ReturnWhen(k2, item_titles = <<>> /\ item_ids = <<>>,
                  ErrorResponse("Either item_titles or item_ids must be provided", ""))
        found == find_collection(k3, collection_title, collection_id, library_name,
                                 "CollectionAddResponse", px)
    IN ExceptReturnError(add_to_found(found, item_titles, item_ids, px), "Exception", "")

\* collection.py:520-556: the items of the collection with the titles given are
\* removed; none of them in the collection is an error
remove_from_found(found, item_titles, px) ==
    LET collection == found.collection
        k1 == Call(found.k, "collection.items", <<collection.ratingKey>>)
        collection_items ==
            SelectSeq(px.media, LAMBDA m : m.ratingKey \in Range(collection.items))
        \* for every title the first item of the collection with that title
        hit(title) == SelectSeq(collection_items, LAMBDA m : lower(m.title) = lower(title))
        items_to_remove ==
            [i \in DOMAIN SelectSeq(item_titles, LAMBDA t : hit(t) # <<>>) |->
                hit(SelectSeq(item_titles, LAMBDA t : hit(t) # <<>>)[i])[1].ratingKey]
        not_found == SelectSeq(item_titles, LAMBDA t : hit(t) = <<>>)
        k2 == ReturnModelWhen(k1, items_to_remove = <<>>, "CollectionRemoveResponse",
                  {"status", "collection_title", "collection_id", "current_items"},
                  [model |-> "CollectionRemoveResponse", status |-> "error",
                   prefix |-> "", detail |-> "",
                   current_items |-> collection.items])
        k3 == Call(k2, "collection.removeItems", <<collection.ratingKey, items_to_remove>>)
        k4 == Call(k3, "collection.items", <<collection.ratingKey>>)
    IN ReturnModel(k4, "CollectionRemoveResponse",
           {"removed", "title", "items_removed", "items_not_found",
            "remaining_items"},
           [model |-> "CollectionRemoveResponse", status |-> "success",
            prefix |-> "", detail |-> "", removed |-> TRUE,
            title |-> collection.title, items_removed |-> items_to_remove,
            items_not_found |-> not_found])

collection_remove_from(collection_title, collection_id, library_name, item_titles, px, faults) ==
    LET k1 == connect_to_plex(Begin(px, faults))
        k2 == ReturnWhen(k1, collection_id = 0 /\ collection_title = <<>>, NoCollectionKey)
        k3 == ReturnWhen(k2, item_titles = <<>>,
                  ErrorResponse("At least one item title must be provided to remove", ""))
        found == find_collection(k3, collection_title, collection_id, library_name,
                                 "CollectionRemoveResponse", px)
    IN ExceptReturnError(remove_from_found(found, item_titles, px), "Exception", "")

\* collection.py:617-654: the collection found is deleted
delete_found(found) ==
    ReturnModel(Call(found.k, "collection.delete", <<found.collection.ratingKey>>),
        "CollectionDeleteResponse", {"deleted", "title"},
        [model |-> "CollectionDeleteResponse", status |-> "success",
         prefix |-> "", detail |-> "", deleted |-> TRUE,
         title |-> found.collection.title])

\* collection.py:592-615: with an id, no collection of the id is an error
found_by_id(by_id) ==
    [by_id EXCEPT !.k = ReturnWhen(by_id.k, by_id.collection = NoCollection,
                                   CollectionNotFoundById)]

\* collection.py:590-654: by id inside its own try statement, else by title
delete_from(k, collection_title, collection_id, library_name, px) ==
    IF collection_id # 0
    THEN InTry(k, ExceptReturnError(
                      delete_found(found_by_id(collection_by_id(k, collection_id, px))),
                      "Exception", "Error fetching collection by ID: "))
    ELSE delete_found(collection_by_title(k, collection_title, library_name,
                                          "CollectionDeleteResponse", px))

collection_delete(collection_title, collection_id, library_name, px, faults) ==
    LET k1 == connect_to_plex(Begin(px, faults))
        k2 == ReturnWhen(k1, collection_id = 0 /\ collection_title = <<>>, NoCollectionKey)
    IN ExceptReturnError(delete_from(k2, collection_title, collection_id, library_name, px),
                         "Exception", "")

\* a label loop that swallows the failure of a call and goes on to the next label
RECURSIVE each_label_continuing(_, _, _, _, _)
each_label_continuing(k, op, key, labels, wanted) ==
    IF k.st # "run" \/ labels = <<>> THEN k
    ELSE LET c == Call(k, op, <<key, Head(labels)>>) IN
         each_label_continuing(IF Head(labels) \notin wanted THEN k
                               ELSE IF c.st = "raised" THEN Handled(c) ELSE c,
                               op, key, Tail(labels), wanted)

\* collection.py:808-812 and 814-818: one call per label that passes the test
RECURSIVE each_label(_, _, _, _, _)
each_label(k, op, key, labels, wanted) ==
    IF k.st # "run" \/ labels = <<>> THEN k
    ELSE each_label(IF Head(labels) \in wanted
                    THEN Call(k, op, <<key, Head(labels)>>) ELSE k,
                    op, key, Tail(labels), wanted)

\* collection.py:835-843: setattr of every advanced setting; the first that
\* raises ends the request with an error record
RECURSIVE set_advanced(_, _, _)
set_advanced(k, key, settings) ==
    IF k.st # "run" \/ settings = <<>> THEN k
    ELSE set_advanced(
             ExceptReturnError(Call(k, "setattr", <<key, Head(settings)>>), "Exception",
                               "Error setting advanced parameter: "),
             key, Tail(settings))

\* the one-element set of x when the condition holds, else the empty set
If(cond, x) == IF cond THEN {x} ELSE {}

\* collection.py:797-818: new_labels replaces the labels; else add_labels and
\* remove_labels are applied label by label
edit_labels(k, r, key, current_labels) ==
    IF r.new_labels # None
    THEN CallWhen(Call(k, "collection.removeLabel", <<key, current_labels>>),
                  r.new_labels[1] # <<>>, "collection.addLabel", <<key, r.new_labels[1]>>)
    ELSE LET added == IF r.add_labels # None /\ r.add_labels[1] # <<>>
                      THEN each_label(k, "collection.addLabel", key, r.add_labels[1],
                                      Range(r.add_labels[1]) \ current_labels)
                      ELSE k
         IN IF r.remove_labels # None /\ r.remove_labels[1] # <<>>
            THEN each_label(added, "collection.removeLabel", key, r.remove_labels[1],
                            current_labels)
            ELSE added

\* collection.py:820-833: the poster and the background art, from the path
\* when there is one, else from the url
edit_artwork(k, r, key) ==
    LET k1 == IF r.poster_path # None THEN Call(k, "collection.uploadPoster", <<key, "filepath">>)
              ELSE CallWhen(k, r.poster_url # None, "collection.uploadPoster", <<key, "url">>)
    IN IF r.background_path # None
       THEN Call(k1, "collection.uploadArt", <<key, "filepath">>)
       ELSE CallWhen(k1, r.background_url # None, "collection.uploadArt", <<key, "url">>)

\* r holds the optional arguments new_title ... new_advanced_settings
edit_found(found, r) ==
    LET collection == found.collection
        key == collection.ratingKey
        edit_params ==
            If(r.new_title # None /\ r.new_title[1] # collection.title, "title")
            \cup If(r.new_sort_title # None /\ r.new_sort_title[1] # collection.titleSort, "titleSort")
            \cup If(r.new_summary # None /\ r.new_summary[1] # collection.summary, "summary")
            \cup If(/\ r.new_content_rating # None
                    /\ r.new_content_rating[1] # collection.contentRating, "contentRating")
        k3 == CallWhen(found.k, edit_params # {}, "collection.edit", <<key, edit_params>>)
        k4 == edit_labels(k3, r, key, collection.labels)
        k6 == edit_artwork(k4, r, key)
        k7 == IF r.new_advanced_settings # None
              THEN set_advanced(k6, key, r.new_advanced_settings[1]) ELSE k6
        changes ==
            edit_params
            \cup If(r.new_labels # None, "labels completely replaced")
            \cup If(r.new_labels = None /\ r.add_labels # None /\ r.add_labels[1] # <<>>, "added labels")
            \cup If(r.new_labels = None /\ r.remove_labels # None /\ r.remove_labels[1] # <<>>, "removed labels")
            \cup If(r.poster_path # None \/ r.poster_url # None, "poster")
            \cup If(r.background_path # None \/ r.background_url # None, "background art")
            \cup If(r.new_advanced_settings # None /\ r.new_advanced_settings[1] # <<>>, "advanced setting")
        k8 == ReturnModelWhen(k7, changes = {}, "CollectionEditResponse", {"updated", "message"},
                  [model |-> "CollectionEditResponse", status |-> "success",
                   prefix |-> "No changes made to the collection", detail |-> "",
                   updated |-> FALSE, changes |-> {}])
    IN ReturnModel(k8, "CollectionEditResponse", {"updated", "title", "changes"},
           [model |-> "CollectionEditResponse", status |-> "success",
            prefix |-> "", detail |-> "", updated |-> TRUE, changes |-> changes])

collection_edit(collection_title, collection_id, library_name, r, px, faults) ==
    LET k1 == connect_to_plex(Begin(px, faults))
        k2 == ReturnWhen(k1, collection_id = 0 /\ collection_title = <<>>, NoCollectionKey)
        found == find_collection(k2, collection_title, collection_id, library_name,
                                 "CollectionEditResponse", px)
    IN ExceptReturnError(edit_found(found, r), "Exception", "")

\* Requests to the collection tools.  A collection id of 0 stands for no id
\* (`not collection_id`), an empty title or list for none (`not title`).
CollectionTitles == {<<>>, <<"f", "A", "v">>, <<"N", "e", "w">>}
CollectionIds == {0, 21, 99}
CollectionLibraries == {<<>>, <<"M", "o", "v">>, <<"X">>}
ItemTitleLists == {<<>>, <<TitleFilm>>, <<<<"d", "u">>, <<"Z">>>>, <<TitleDup, TitleFilm>>}
ItemIdLists == {<<>>, <<11>>, <<12, 99>>}

NoEdit ==
    [new_title |-> None, new_sort_title |-> None, new_summary |-> None,
     new_content_rating |-> None, new_labels |-> None, add_labels |-> None,
     remove_labels |-> None, poster_path |-> None, poster_url |-> None,
     background_path |-> None, background_url |-> None, new_advanced_settings |-> None]

EditRequests ==
    { NoEdit,
      [NoEdit EXCEPT !.new_title = Some(TitleFav)],
      [NoEdit EXCEPT !.new_title = Some(<<"N", "e", "w">>)],
      [NoEdit EXCEPT !.new_sort_title = Some(<<"n">>), !.new_summary = Some(<<"s">>),
                     !.new_content_rating = Some(<<"R">>)],
      [NoEdit EXCEPT !.new_labels = Some(<<"b">>)],
      [NoEdit EXCEPT !.new_labels = Some(<<>>), !.add_labels = Some(<<"c">>)],
      [NoEdit EXCEPT !.add_labels = Some(<<"a", "b", "c">>),
                     !.remove_labels = Some(<<"a", "d">>)],
      [NoEdit EXCEPT !.poster_path = Some(<<"p">>), !.poster_url = Some(<<"u">>),
                     !.background_url = Some(<<"u">>)],
      [NoEdit EXCEPT !.poster_url = Some(<<"u">>), !.background_path = Some(<<"p">>)],
      [NoEdit EXCEPT !.new_advanced_settings = Some(<<"x", "y">>)],
      [NoEdit EXCEPT !.new_title = Some(<<"N", "e", "w">>), !.new_labels = Some(<<"b">>),
                     !.poster_path = Some(<<"p">>), !.background_path = Some(<<"p">>),
                     !.new_advanced_settings = Some(<<"x">>)] }

CollectionLookupOps ==
    {"connect_to_plex", "plex.library.section", "plex.library.sections"}

tool_collection_list ==
    /\ tool.pc = "idle"
    /\ \E library_name \in LibraryNames,
          faults \in FaultPlans({"plex.library.section", "section.collections"},
                                CollectionLookupOps, {"section.collections"}) :
         Finish("collection_list", [library_name |-> library_name],
                collection_list(library_name, plex, faults))

tool_collection_create ==
    /\ tool.pc = "idle"
    /\ \E collection_title \in CollectionTitles \ {<<>>},
          library_name \in CollectionLibraries \ {<<>>},
          item_titles \in ItemTitleLists, item_ids \in ItemIdLists,
          faults \in FaultPlans({"plex.library.section"},
                                {"connect_to_plex", "plex.library.section",
                                 "section.collections", "library.createCollection"},
                                {"plex.fetchItem", "library.search"}) :
         Finish("collection_create",
                [collection_title |-> collection_title, library_name |-> library_name,
                 item_titles |-> item_titles, item_ids |-> item_ids],
                collection_create(collection_title, library_name, item_titles, item_ids,
                                  plex, faults))

tool_collection_add_to ==
    /\ tool.pc = "idle"
    /\ \E collection_title \in CollectionTitles, collection_id \in CollectionIds,
          library_name \in CollectionLibraries,
          item_titles \in ItemTitleLists, item_ids \in ItemIdLists,
          faults \in FaultPlans({"plex.library.section"},
                                CollectionLookupOps \cup {"collection.addItems"},
                                {"plex.fetchItem", "section.collections",
                                 "collection.items", "library.search"}) :
         Finish("collection_add_to",
                [collection_title |-> collection_title, collection_id |-> collection_id,
                 library_name |-> library_name, item_titles |-> item_titles,
                 item_ids |-> item_ids],
                collection_add_to(collection_title, collection_id, library_name,
                                  item_titles, item_ids, plex, faults))

tool_collection_remove_from ==
    /\ tool.pc = "idle"
    /\ \E collection_title \in CollectionTitles, collection_id \in CollectionIds,
          library_name \in CollectionLibraries, item_titles \in ItemTitleLists,
          faults \in FaultPlans({"plex.library.section"},
                                CollectionLookupOps
                                \cup {"plex.fetchItem", "collection.removeItems"},
                                {"section.collections", "collection.items"}) :
         Finish("collection_remove_from",
                [collection_title |-> collection_title, collection_id |-> collection_id,
                 library_name |-> library_name, item_titles |-> item_titles],
                collection_remove_from(collection_title, collection_id, library_name,
                                       item_titles, plex, faults))

tool_collection_delete ==
    /\ tool.pc = "idle"
    /\ \E collection_title \in CollectionTitles, collection_id \in CollectionIds,
          library_name \in CollectionLibraries,
          faults \in FaultPlans({"plex.library.section"},
                                CollectionLookupOps
                                \cup {"plex.fetchItem", "collection.delete"},
                                {"section.collections"}) :
         Finish("collection_delete",
                [collection_title |-> collection_title, collection_id |-> collection_id,
                 library_name |-> library_name],
                collection_delete(collection_title, collection_id, library_name,
                                  plex, faults))

tool_collection_edit ==
    /\ tool.pc = "idle"
    /\ \E collection_title \in CollectionTitles, collection_id \in CollectionIds,
          library_name \in CollectionLibraries, r \in EditRequests,
          faults \in FaultPlans({"plex.library.section"},
                                CollectionLookupOps
                                \cup {"plex.fetchItem", "section.collections",
                                      "collection.edit", "collection.uploadPoster",
                                      "collection.uploadArt"},
                                {"collection.removeLabel", "collection.addLabel",
                                 "setattr"}) :
         Finish("collection_edit",
                [collection_title |-> collection_title, collection_id |-> collection_id,
                 library_name |-> library_name, edit |-> r],
                collection_edit(collection_title, collection_id, library_name, r,
                                plex, faults))

(***************************************************************************)
(* modules/library.py                                                      *)
(***************************************************************************)
LibraryInfoKwargs == {"type", "libraryId", "totalSize", "uuid", "locations", "updatedAt"}

library_list(px, faults) ==
    LET k1 == connect_to_plex(Begin(px, faults))
        k2 == Call(k1, "plex.library.sections", <<>>)
        libraries == px.sections
        k3 == IF libraries = <<>>
              THEN ReturnModel(k2, "LibraryListResponse", {"message"},
                       [model |-> "LibraryListResponse", status |-> "none",
                        prefix |-> "No libraries found on your Plex server.",
                        detail |-> "", libraries |-> {}])
              ELSE k2
        \* the first LibraryInfo(...) of the loop already raises or none does
        k4 == Construct(k3, "LibraryInfo", LibraryInfoKwargs)
        k5 == ReturnModel(k4, "LibraryListResponse", {"libraries"},
                  [model |-> "LibraryListResponse", status |-> "none", prefix |-> "",
                   detail |-> "",
                   libraries |-> {libraries[i].title : i \in DOMAIN libraries}])
    IN ExceptReturnError(k5, "Exception", "Error listing libraries: ")

LibraryNotFound == ErrorResponse("Library not found. Available libraries: ", "")

library_refresh(library_name, px, faults) ==
    LET k1 == connect_to_plex(Begin(px, faults))
        all_sections == px.sections
        n == find_section(all_sections, library_name)
        k6 ==
            IF library_name # <<>>
            THEN LET k2 == Call(k1, "plex.library.sections", <<>>)
                     k3 == IF n = 0 THEN Return(k2, LibraryNotFound) ELSE k2
                     k4 == Call(k3, "section.refresh", <<all_sections[n].title>>)
                 IN ReturnModel(k4, "LibraryRefreshResponse", {"success", "message"},
                        [model |-> "LibraryRefreshResponse", status |-> "none",
                         prefix |-> "Refreshing library", detail |-> "", success |-> TRUE])
            ELSE LET k5 == Call(k1, "plex.library.refresh", <<>>)
                 IN ReturnModel(k5, "LibraryRefreshResponse", {"success", "message"},
                        [model |-> "LibraryRefreshResponse", status |-> "none",
                         prefix |-> "Refreshing all libraries", detail |-> "",
                         success |-> TRUE])
    IN ExceptReturnError(k6, "Exception", "Error refreshing library: ")

library_scan(library_name, path, px, faults) ==
    LET k1 == connect_to_plex(Begin(px, faults))
        all_sections == px.sections
        k2 == Call(k1, "plex.library.sections", <<>>)
        n == find_section(all_sections, library_name)
        k3 == IF n = 0 THEN Return(k2, LibraryNotFound) ELSE k2
        k7 ==
            IF path # <<>>
            THEN LET k4 == Call(k3, "section.update", <<all_sections[n].title, path>>)
                     k5 == ReturnModel(k4, "LibraryScanResponse", {"success", "message"},
                               [model |-> "LibraryScanResponse", status |-> "none",
                                prefix |-> "Scanning path", detail |-> "",
                                success |-> TRUE])
                 IN InTry(k3, ExceptReturnFixed(k5, "NotFound", "Path not found in library"))
            ELSE LET k6 == Call(k3, "section.update", <<all_sections[n].title>>)
                 IN ReturnModel(k6, "LibraryScanResponse", {"success", "message"},
                        [model |-> "LibraryScanResponse", status |-> "none",
                         prefix |-> "Scanning library", detail |-> "", success |-> TRUE])
    IN ExceptReturnError(k7, "Exception", "Error scanning library: ")

LibraryDetailsKwargs ==
    {"name", "type", "uuid", "totalItems", "locations", "agent", "scanner", "language",
     "scannerSettings", "agentSettings", "advancedSettings"}

library_get_details(library_name, px, faults) ==
    LET k1 == connect_to_plex(Begin(px, faults))
        all_sections == px.sections
        k2 == Call(k1, "plex.library.sections", <<>>)
        n == find_section(all_sections, library_name)
        k3 == IF n = 0 THEN Return(k2, LibraryNotFound) ELSE k2
        k4 == ReturnModel(k3, "LibraryDetailsResponse", LibraryDetailsKwargs,
                  [model |-> "LibraryDetailsResponse", status |-> "none", prefix |-> "",
                   detail |-> "", name |-> all_sections[n].title,
                   total_items |-> all_sections[n].totalSize])
    IN ExceptReturnError(k4, "Exception", "Error getting library details: ")

\* seq without its i-th element
Without(seq, i) == SubSeq(seq, 1, i - 1) \o SubSeq(seq, i + 1, Len(seq))

\* sorted(recent, key=addedAt, reverse=True): latest first, and items of the
\* same addedAt in their original order (the sort is stable)
RECURSIVE sorted_by_added(_)
sorted_by_added(recent) ==
    IF recent = <<>> THEN <<>>
    ELSE LET latest == {i \in DOMAIN recent :
                           \A j \in DOMAIN recent : recent[j].addedAt <= recent[i].addedAt}
             i == First(latest)
         IN <<recent[i]>> \o sorted_by_added(Without(recent, i))

\* seq[:count]
slice_to(seq, count) ==
    IF count >= Len(seq) THEN seq
    ELSE IF count >= 0 THEN SubSeq(seq, 1, count)
    ELSE IF Len(seq) + count > 0 THEN SubSeq(seq, 1, Len(seq) + count)
    ELSE <<>>

RecentlyAddedKwargs == {"count", "requestedCount", "library", "items"}

\* plex.library.recentlyAdded() reports every item in the server's order;
\* section.recentlyAdded(maxresults=count) the count latest of the section
library_get_recently_added(count, library_name, px, faults) ==
    LET k1 == connect_to_plex(Begin(px, faults))
        all_sections == px.sections
        n == find_section(all_sections, library_name)
        k2 == Call(k1, "plex.library.sections", <<>>)
        k3 == IF n = 0 THEN Return(k2, LibraryNotFound) ELSE k2
        k4 == IF library_name # <<>>
              THEN Call(k3, "section.recentlyAdded", <<all_sections[n].title, count>>)
              ELSE Call(k1, "plex.library.recentlyAdded", <<>>)
        recent ==
            IF library_name # <<>>
            THEN slice_to(sorted_by_added(
                     SelectSeq(px.media, LAMBDA m : m.section = all_sections[n].title)),
                     IF count < 0 THEN 0 ELSE count)
            ELSE slice_to(sorted_by_added(px.media), count)
        k5 == IF k4.st = "run" /\ recent = <<>>
              THEN ReturnModel(k4, "LibraryRecentlyAddedResponse", RecentlyAddedKwargs,
                       [model |-> "LibraryRecentlyAddedResponse", status |-> "none",
                        prefix |-> "", detail |-> "", count |-> 0,
                        requested_count |-> count, items |-> <<>>])
              ELSE k4
        k6 == ReturnModel(k5, "LibraryRecentlyAddedResponse", RecentlyAddedKwargs,
                  [model |-> "LibraryRecentlyAddedResponse", status |-> "none",
                   prefix |-> "", detail |-> "", count |-> Len(recent),
                   requested_count |-> count,
                   items |-> [i \in DOMAIN recent |-> recent[i].ratingKey]])
    IN ExceptReturnError(k6, "Exception", "Error getting recently added items: ")

RecentCounts == {-1, 0, 1, 3, 50}

tool_library_get_recently_added ==
    /\ tool.pc = "idle"
    /\ \E count \in RecentCounts, library_name \in LibraryNames,
          faults \in FaultPlans({}, {"connect_to_plex", "plex.library.sections",
                                     "section.recentlyAdded",
                                     "plex.library.recentlyAdded"}, {}) :
         Finish("library_get_recently_added",
                [count |-> count, library_name |-> library_name],
                library_get_recently_added(count, library_name, plex, faults))

\* the fault plan makes the request of this URL fail
Fails(faults, op) == \E f \in faults : f.op = op /\ f.nth = 1

\* asyncio.gather(*requests) has an outcome once every request has completed
\* or one that completed has raised; order lists the completed requests
GatherResolved(faults, urls, order) ==
    \/ Len(order) = Len(urls)
    \/ \E j \in DOMAIN order : Fails(faults, urls[order[j]])

\* await asyncio.gather(*requests): the requests complete in the given order;
\* the first to raise ends the wait with its exception
RECURSIVE gather(_, _, _)
gather(k, urls, order) ==
    IF k.st # "run" \/ order = <<>> THEN k
    ELSE gather(Call(k, urls[Head(order)], <<>>), urls, Tail(order))

\* the response of the server to a metadata request
MetadataResponse(px, key) ==
    LET m == SelectSeq(px.media, LAMBDA x : x.ratingKey = key)[1] IN
    [ratingKey |-> key, leafCount |-> m.viewCount]

\* what gather returns: the i-th result is the response to the i-th request
gather_results_by_completion(px, keys, order) ==
    [i \in DOMAIN keys |-> MetadataResponse(px, keys[order[i]])]

gather_results(px, keys, order) ==
    [i \in DOMAIN keys |-> MetadataResponse(px, keys[i])]

UrlSections == "GET library/sections"
UrlAll == "GET library/sections/{id}/all"
UrlUnwatched == "GET library/sections/{id}/all?unwatched=1"
UrlSeasons == "GET library/sections/{id}/all?type=3"
UrlEpisodes == "GET library/sections/{id}/all?type=4"
UrlTracks == "GET library/sections/{id}/all?artist.id={artist}&type=10"

UrlMetadata(key) ==
    CASE key = 13 -> "GET library/metadata/13"
      [] key = 14 -> "GET library/metadata/14"
      [] key = 15 -> "GET library/metadata/15"
      [] OTHER -> "GET library/metadata/{key}"

StatsUrls == <<UrlAll, UrlUnwatched>>
ShowStatsUrls == <<UrlSeasons, UrlEpisodes>>

\* the items the section's /all request reports
metadata_of(px, section) == SelectSeq(px.media, LAMBDA m : m.section = section.title)

\* library.py:204-215 and 696-704: one request per artist, one after the other
RECURSIVE artist_tracks(_, _)
artist_tracks(k, artists) ==
    IF k.st # "run" \/ artists = <<>> THEN k
    ELSE artist_tracks(Call(k, UrlTracks, <<Head(artists).ratingKey>>), Tail(artists))

StatsNotFound == ErrorResponse("Library not found", "")

\* library.py:94-107: up to the first gather
library_get_stats_sections(library_name, px, faults) ==
    LET k1 == connect_to_plex(Begin(px, faults))
        k2 == Call(k1, UrlSections, <<>>)
    IN IF find_section(px.sections, library_name) = 0 THEN Return(k2, StatsNotFound) ELSE k2

\* order1 and order2 are the orders in which the requests of the two gathers
\* complete
library_get_stats(library_name, order1, order2, px, faults) ==
    LET k2 == library_get_stats_sections(library_name, px, faults)
        target_section == px.sections[find_section(px.sections, library_name)]
        library_type == target_section.type
        k3 == gather(k2, StatsUrls, order1)
        k4 == CASE k3.st # "run" -> k3
                [] library_type = "movie" ->
                     ReturnModel(
                         Construct(k3, "MovieStats",
                                   {"count", "unwatched", "topGenres", "topDirectors",
                                    "topStudios", "byDecade"}),
                         "LibraryStatsResponse", {"name", "type", "totalItems", "movieStats"},
                         [model |-> "LibraryStatsResponse", status |-> "none",
                          prefix |-> "", detail |-> "", name |-> target_section.title])
                [] library_type = "show" ->
                     ReturnModel(
                         Construct(gather(k3, ShowStatsUrls, order2), "ShowStats",
                                   {"shows", "seasons", "episodes", "unwatchedShows",
                                    "topGenres", "topStudios", "byDecade"}),
                         "LibraryStatsResponse", {"name", "type", "totalItems", "showStats"},
                         [model |-> "LibraryStatsResponse", status |-> "none",
                          prefix |-> "", detail |-> "", name |-> target_section.title])
                [] library_type = "artist" ->
                     ReturnModel(
                         Construct(artist_tracks(k3, metadata_of(px, target_section)),
                                   "MusicStats",
                                   {"count", "totalTracks", "totalAlbums", "totalPlays",
                                    "topGenres", "topArtists", "topAlbums", "byYear",
                                    "audioFormats"}),
                         "LibraryStatsResponse", {"name", "type", "totalItems", "musicStats"},
                         [model |-> "LibraryStatsResponse", status |-> "none",
                          prefix |-> "", detail |-> "", name |-> target_section.title])
                [] OTHER ->
                     ReturnModel(k3, "LibraryStatsResponse", {"name", "type", "totalItems"},
                         [model |-> "LibraryStatsResponse", status |-> "none",
                          prefix |-> "", detail |-> "", name |-> target_section.title])
    IN ExceptReturnError(k4, "Exception", "Error getting library stats: ")

\* library.py:621-640: up to the request of the section's items
library_get_contents_all(library_name, px, faults) ==
    LET k1 == connect_to_plex(Begin(px, faults))
        k2 == Call(k1, UrlSections, <<>>)
        k3 == IF find_section(px.sections, library_name) = 0
              THEN Return(k2, StatsNotFound) ELSE k2
    IN Call(k3, UrlAll, <<>>)

\* the rating keys of show_urls
show_keys(px, section) ==
    [i \in DOMAIN metadata_of(px, section) |-> metadata_of(px, section)[i].ratingKey]

show_urls(px, section) ==
    [i \in DOMAIN show_keys(px, section) |-> UrlMetadata(show_keys(px, section)[i])]

\* order is the order in which the metadata requests of the gather complete
library_get_contents(library_name, order, px, faults) ==
    LET k3 == library_get_contents_all(library_name, px, faults)
        target_section == px.sections[find_section(px.sections, library_name)]
        library_type == target_section.type
        metadata == metadata_of(px, target_section)
        show_responses == gather_results(px, show_keys(px, target_section), order)
        k4 == CASE k3.st # "run" -> k3
                [] library_type = "show" -> gather(k3, show_urls(px, target_section), order)
                [] library_type = "artist" -> artist_tracks(k3, metadata)
                [] OTHER -> k3
        items ==
            IF library_type = "show"
            THEN [i \in DOMAIN metadata |->
                    [title |-> metadata[i].title, ratingKey |-> metadata[i].ratingKey,
                     metadata_of |-> show_responses[i].ratingKey,
                     episodeCount |-> show_responses[i].leafCount]]
            ELSE [i \in DOMAIN metadata |->
                    [title |-> metadata[i].title, ratingKey |-> metadata[i].ratingKey]]
        k5 == IF k4.st = "run" THEN [k4 EXCEPT !.items = items] ELSE k4
        k6 == ReturnModel(k5, "LibraryContentsResponse",
                  {"name", "type", "totalItems", "items"},
                  [model |-> "LibraryContentsResponse", status |-> "none", prefix |-> "",
                   detail |-> "", name |-> target_section.title, items |-> items])
    IN ExceptReturnError(k6, "Exception", "Error getting library contents: ")

\* The handler waits in `await asyncio.gather(...)`.
Waiting(name, params, phase, faults) ==
    /\ tool' = [name |-> name, args |-> params, pc |-> "gather", phase |-> phase,
                faults |-> faults, st |-> "run", ret |-> NoRet, exc |-> NoExc,
                calls |-> <<>>, items |-> <<>>]
    /\ UNCHANGED <<plex, http_vars, main_vars, script_vars>>

StatsOps == {"connect_to_plex", UrlSections, UrlAll, UrlUnwatched, UrlSeasons, UrlEpisodes}

\* library_get_stats runs up to its first gather
tool_library_get_stats ==
    /\ tool.pc = "idle"
    /\ \E library_name \in LibraryNames, faults \in FaultPlans({}, StatsOps, {UrlTracks}) :
         LET params == [library_name |-> library_name, order1 |-> <<>>, order2 |-> <<>>] IN
         IF library_get_stats_sections(library_name, plex, faults).st = "run"
         THEN Waiting("library_get_stats", params, 1, faults)
         ELSE Finish("library_get_stats", params,
                     library_get_stats(library_name, <<>>, <<>>, plex, faults))

\* one of the two concurrent requests of library_get_stats completes
library_get_stats_request_completes ==
    /\ tool.pc = "gather"
    /\ tool.name = "library_get_stats"
    /\ LET a == tool.args
           done == IF tool.phase = 1 THEN a.order1 ELSE a.order2
           urls == IF tool.phase = 1 THEN StatsUrls ELSE ShowStatsUrls
           section == plex.sections[find_section(plex.sections, a.library_name)]
       IN \E i \in DOMAIN urls \ Range(done) :
            LET params == IF tool.phase = 1 THEN [a EXCEPT !.order1 = Append(@, i)]
                          ELSE [a EXCEPT !.order2 = Append(@, i)]
                failed == Fails(tool.faults, urls[i])
            IN IF ~GatherResolved(tool.faults, urls, Append(done, i))
               THEN /\ tool' = [tool EXCEPT !.args = params]
                    /\ UNCHANGED <<plex, http_vars, main_vars, script_vars>>
               ELSE IF tool.phase = 1 /\ ~failed /\ section.type = "show"
               THEN Waiting("library_get_stats", params, 2, tool.faults)
               ELSE Finish("library_get_stats", params,
                           library_get_stats(a.library_name, params.order1, params.order2,
                                             plex, tool.faults))

ContentsOps ==
    {"connect_to_plex", UrlSections, UrlAll, UrlMetadata(13), UrlMetadata(14),
     UrlMetadata(15)}

\* library_get_contents runs up to its gather
tool_library_get_contents ==
    /\ tool.pc = "idle"
    /\ \E library_name \in LibraryNames, faults \in FaultPlans({}, ContentsOps, {UrlTracks}) :
         LET params == [library_name |-> library_name, order |-> <<>>]
             k == library_get_contents_all(library_name, plex, faults)
             section == plex.sections[find_section(plex.sections, library_name)]
         IN IF k.st = "run" /\ section.type = "show" /\ metadata_of(plex, section) # <<>>
            THEN Waiting("library_get_contents", params, 1, faults)
            ELSE Finish("library_get_contents", params,
                        library_get_contents(library_name, <<>>, plex, faults))

\* one of the concurrent metadata requests of library_get_contents completes
library_get_contents_request_completes ==
    /\ tool.pc = "gather"
    /\ tool.name = "library_get_contents"
    /\ LET a == tool.args
           section == plex.sections[find_section(plex.sections, a.library_name)]
           urls == show_urls(plex, section)
       IN \E i \in DOMAIN urls \ Range(a.order) :
            LET params == [a EXCEPT !.order = Append(@, i)] IN
            IF ~GatherResolved(tool.faults, urls, params.order)
            THEN /\ tool' = [tool EXCEPT !.args = params]
                 /\ UNCHANGED <<plex, http_vars, main_vars, script_vars>>
            ELSE Finish("library_get_contents", params,
                        library_get_contents(a.library_name, params.order, plex,
                                             tool.faults))

tool_library_list ==
    /\ tool.pc = "idle"
    /\ \E faults \in FaultPlans({}, {"connect_to_plex", "plex.library.sections"}, {}) :
         Finish("library_list", [none |-> TRUE], library_list(plex, faults))

tool_library_refresh ==
    /\ tool.pc = "idle"
    /\ \E library_name \in LibraryNames,
          faults \in FaultPlans({}, {"connect_to_plex", "plex.library.sections",
                                     "section.refresh", "plex.library.refresh"}, {}) :
         Finish("library_refresh", [library_name |-> library_name],
                library_refresh(library_name, plex, faults))

tool_library_scan ==
    /\ tool.pc = "idle"
    /\ \E library_name \in LibraryNames, path \in ScanPaths,
          faults \in FaultPlans({"section.update"},
                            {"connect_to_plex", "plex.library.sections", "section.update"},
                            {}) :
         Finish("library_scan", [library_name |-> library_name, path |-> path],
                library_scan(library_name, path, plex, faults))

tool_library_get_details ==
    /\ tool.pc = "idle"
    /\ \E library_name \in LibraryNames,
          faults \in FaultPlans({}, {"connect_to_plex", "plex.library.sections"}, {}) :
         Finish("library_get_details", [library_name |-> library_name],
                library_get_details(library_name, plex, faults))

(***************************************************************************)
(* modules/sessions.py                                                     *)
(***************************************************************************)
SessionsActiveKwargs ==
    {"status", "message", "sessions_count", "transcode_count", "direct_play_count",
     "total_bitrate_kbps", "sessions"}

\* no session of the modelled servers is transcoded: all count as direct play
sessions_get_active(px, faults) ==
    LET k1 == connect_to_plex(Begin(px, faults))
        sessions == px.sessions
        k2 == Call(k1, "plex.sessions", <<>>)
        k3 == IF sessions = <<>>
              THEN ReturnModel(k2, "SessionsActiveResponse",
                       {"status", "message", "sessions_count", "sessions"},
                       [model |-> "SessionsActiveResponse", status |-> "success",
                        prefix |-> "No active sessions found.", detail |-> "",
                        sessions_count |-> 0, sessions |-> <<>>])
              ELSE k2
        k4 == ReturnModel(k3, "SessionsActiveResponse", SessionsActiveKwargs,
                  [model |-> "SessionsActiveResponse", status |-> "success",
                   prefix |-> "Found active sessions", detail |-> "",
                   sessions_count |-> Len(sessions),
                   sessions |-> [i \in DOMAIN sessions |->
                                   [session_id |-> i,
                                    player_name |-> sessions[i].player.title]]])
    IN ExceptReturnError(k4, "Exception", "Error getting active sessions: ")

\* sessions.py:341-375: for every history entry the account and the device are
\* looked up; a lookup that raises is replaced by the bare id
RECURSIVE history_entries(_, _)
history_entries(k, n) ==
    IF k.st # "run" \/ n = 0 THEN k
    ELSE LET k1 == Call(k, "plex.myPlexAccount", <<>>)
             k2 == InTry(k, IF Caught(k1, "Exception") THEN Handled(k1) ELSE k1)
             k3 == Call(k2, "plex.systemDevice", <<>>)
             k4 == InTry(k2, IF Caught(k3, "Exception") THEN Handled(k3) ELSE k3)
         IN history_entries(k4, n - 1)

\* a media id of 0 stands for none (`not media_id`); the play history of an
\* item has one entry per view
sessions_get_media_playback_history(media_title, library_name, media_id, px, faults) ==
    LET k1 == connect_to_plex(Begin(px, faults))
        k2 == IF media_title = <<>> /\ media_id = 0
              THEN Return(k1, ErrorResponse("Either media_title or media_id must be provided.", ""))
              ELSE k1
        n == find_section(px.sections, library_name)
        k3 == InTry(k2, ExceptReturnError(fetchItem(k2, media_id, px), "Exception",
                                          "Media with ID not found: "))
        k4 == Call(library_section(k2, library_name, px), "library.search", <<media_title>>)
        k5 == IF library_name # <<>>
              THEN InTry(k2, ExceptReturnFixed(k4, "Exception", "Library not found."))
              ELSE Call(k2, "plex.search", <<media_title>>)
        results == IF library_name = <<>> THEN search(px.media, media_title)
                   ELSE IF n = 0 THEN <<>>
                   ELSE section_search(px.media, px.sections[n], media_title)
        k6 == IF results = <<>>
              THEN Return(k5, ErrorResponse("No media found matching", "")) ELSE k5
        k7 == IF Len(results) > 1
              THEN ReturnModel(k6, "MediaPlaybackHistoryResponse",
                       {"status", "message", "play_count", "matches"},
                       [model |-> "MediaPlaybackHistoryResponse",
                        status |-> "multiple_matches",
                        prefix |-> "Multiple items found with title", detail |-> "",
                        play_count |-> 0,
                        matches |-> [i \in DOMAIN results |-> results[i].ratingKey]])
              ELSE k6
        k8 == IF media_id # 0 THEN k3 ELSE k7
        media == IF media_id # 0 THEN fetched(px, media_id)[1] ELSE results[1]
        k9 == Call(k8, "media.history", <<media.ratingKey>>)
        k10 == IF media.viewCount = 0
               THEN ReturnModel(k9, "MediaPlaybackHistoryResponse",
                        {"status", "message", "media", "play_count", "history"},
                        [model |-> "MediaPlaybackHistoryResponse", status |-> "success",
                         prefix |-> "No playback history found", detail |-> "",
                         play_count |-> 0, media |-> media.ratingKey])
               ELSE k9
        k11 == history_entries(k10, media.viewCount)
        k12 == ReturnModel(k11, "MediaPlaybackHistoryResponse",
                   {"status", "media", "play_count", "history"},
                   [model |-> "MediaPlaybackHistoryResponse", status |-> "success",
                    prefix |-> "", detail |-> "", play_count |-> media.viewCount,
                    media |-> media.ratingKey])
        \* `except AttributeError`: the view count of the item itself
        k13 == IF Caught(k12, "AttributeError")
               THEN IF media.viewCount = 0
                    THEN ReturnModel(Handled(k12), "MediaPlaybackHistoryResponse",
                             {"status", "message", "media", "play_count"},
                             [model |-> "MediaPlaybackHistoryResponse",
                              status |-> "success",
                              prefix |-> "No one has watched it yet.", detail |-> "",
                              play_count |-> 0, media |-> media.ratingKey])
                    ELSE ReturnModel(Handled(k12), "MediaPlaybackHistoryResponse",
                             {"status", "media", "play_count", "last_viewed", "viewed_by"},
                             [model |-> "MediaPlaybackHistoryResponse",
                              status |-> "success", prefix |-> "", detail |-> "",
                              play_count |-> media.viewCount, media |-> media.ratingKey])
               ELSE k12
    IN ExceptReturnError(InTry(k8, k13), "Exception",
                         "Error getting media playback history: ")

MediaIds == {0, 11, 99}

tool_sessions_get_active ==
    /\ tool.pc = "idle"
    /\ \E faults \in FaultPlans({}, {"connect_to_plex", "plex.sessions"}, {}) :
         Finish("sessions_get_active", [none |-> TRUE], sessions_get_active(plex, faults))

tool_sessions_get_media_playback_history ==
    /\ tool.pc = "idle"
    /\ \E media_title \in MediaTitles \cup {<<>>}, library_name \in CollectionLibraries,
          media_id \in MediaIds,
          faults \in FaultPlans({},
                                {"connect_to_plex", "plex.fetchItem", "plex.library.section",
                                 "library.search", "plex.search", "media.history"},
                                {"plex.myPlexAccount", "plex.systemDevice"}) :
         Finish("sessions_get_media_playback_history",
                [media_title |-> media_title, library_name |-> library_name,
                 media_id |-> media_id],
                sessions_get_media_playback_history(media_title, library_name, media_id,
                                                    plex, faults))

(***************************************************************************)
(* server.py: the Starlette application                                    *)
(***************************************************************************)

\* routes=[Route("/tools", list_tools_handler, methods=["GET"]), Mount("/", sse_handler)]
RouteOf(scope) ==
    IF scope.type = "http" /\ scope.path = PathTools /\ scope.method = "GET"
    THEN "list_tools_handler"
    ELSE "sse_handler"

\* sse_handler that compares the message path for equality with "/messages/"
sse_handler_branch_exact(scope) ==
    IF scope.type = "http" /\ scope.method = "GET" /\ scope.path \in {PathSse, PathSseSlash}
    THEN "connect_sse"
    ELSE IF scope.type = "http" /\ scope.path = PathMessagesSlash
    THEN "handle_post_message"
    ELSE "not_found"

\* The branch sse_handler takes for a scope (server.py:59, 78, 80).
sse_handler_branch(scope) ==
    IF scope.type = "http" /\ scope.method = "GET" /\ scope.path \in {PathSse, PathSseSlash}
    THEN "connect_sse"
    ELSE IF scope.type = "http" /\ startswith(scope.path, PathMessages)
    THEN "handle_post_message"
    ELSE "not_found"

\* SseServerTransport.handle_post_message on the transport whose session
\* table is `writers`: the response it sends.
handle_post_message_response(writers, scope) ==
    IF scope.session_id = NoSession THEN [status |-> 400, body |-> "session_id is required"]
    ELSE IF scope.session_id \notin writers THEN [status |-> 404, body |-> "Could not find session"]
    ELSE [status |-> 202, body |-> "Accepted"]

\* list_tools_handler answers with the JSON list of tools.
list_tools_handler(t, scope) ==
    /\ conn' = [conn EXCEPT ![t] = [pc |-> "done", scope |-> scope,
                                    handler |-> "list_tools_handler", branch |-> "none",
                                    response |-> [status |-> 200, body |-> "tools_list"]]]
    /\ UNCHANGED <<lifespan_state, active_connections, cancel_called,
                   read_stream_writers, delivered>>

\* sse_handler up to its first suspension point.
sse_handler(t, scope) ==
    LET branch == sse_handler_branch(scope) IN
    IF branch = "connect_sse" THEN
        /\ conn' = [conn EXCEPT ![t] = [pc |-> "connect_sse", scope |-> scope,
                                        handler |-> "sse_handler", branch |-> branch,
                                        response |-> NoResponse]]
        /\ UNCHANGED <<lifespan_state, active_connections, cancel_called,
                       read_stream_writers, delivered>>
    ELSE IF branch = "handle_post_message" THEN
        LET resp == handle_post_message_response(read_stream_writers, scope) IN
        /\ resp.status = 202 => delivered[scope.session_id] < MaxMsgs
        /\ conn' = [conn EXCEPT ![t] = [pc |-> "done", scope |-> scope,
                                        handler |-> "sse_handler", branch |-> branch,
                                        response |-> resp]]
        /\ delivered' = IF resp.status = 202
                        THEN [delivered EXCEPT ![scope.session_id] = @ + 1]
                        ELSE delivered
        /\ UNCHANGED <<lifespan_state, active_connections, cancel_called,
                       read_stream_writers>>
    ELSE
        /\ conn' = [conn EXCEPT ![t] = [pc |-> "done", scope |-> scope,
                                        handler |-> "sse_handler", branch |-> branch,
                                        response |-> [status |-> 404, body |-> "Not Found"]]]
        /\ UNCHANGED <<lifespan_state, active_connections, cancel_called,
                       read_stream_writers, delivered>>

\* The web server starts a task for a request and Starlette routes it.
Request(t, scope) ==
    /\ lifespan_state = "running"
    /\ conn[t].pc = "idle"
    /\ IF RouteOf(scope) = "list_tools_handler"
       THEN list_tools_handler(t, scope)
       ELSE sse_handler(t, scope)
    /\ UNCHANGED <<main_vars, script_vars, tool_vars>>

\* `async with sse.connect_sse(...)` is entered: the transport records the
\* session, then the task registers itself (server.py:64-66) and awaits
\* mcp_server.run.
connect_sse_entered(t) ==
    /\ conn[t].pc = "connect_sse"
    /\ read_stream_writers' = read_stream_writers \cup {t}
    /\ active_connections' = active_connections \cup {t}
    /\ conn' = [conn EXCEPT ![t].pc = "run"]
    /\ UNCHANGED <<lifespan_state, cancel_called, delivered, main_vars, script_vars, tool_vars>>

\* connect_sse raises before a session exists: `except Exception: pass`.
connect_sse_raises(t) ==
    /\ conn[t].pc = "connect_sse"
    /\ conn' = [conn EXCEPT ![t].pc = "done"]
    /\ UNCHANGED <<lifespan_state, active_connections, cancel_called,
                   read_stream_writers, delivered, main_vars, script_vars, tool_vars>>

\* mcp_server.run ends (how: "return", "exception" or "cancelled"); the
\* finally clause discards the task (server.py:73-75) and the transport
\* closes the session.
RunEnds == {"return", "exception", "cancelled"}

\* a sse_handler without the finally clause: the task stays in the set
mcp_server_run_ends_keeps(t, how) ==
    /\ conn[t].pc = "run"
    /\ active_connections' = active_connections
    /\ read_stream_writers' = read_stream_writers \ {t}
    /\ conn' = [conn EXCEPT ![t].pc = IF how = "cancelled" THEN "cancelled" ELSE "done"]
    /\ UNCHANGED <<lifespan_state, cancel_called, delivered, main_vars, script_vars, tool_vars>>

\* a finally clause that empties the set instead of discarding its own task
mcp_server_run_ends_clears(t, how) ==
    /\ conn[t].pc = "run"
    /\ active_connections' = {}
    /\ read_stream_writers' = read_stream_writers \ {t}
    /\ conn' = [conn EXCEPT ![t].pc = IF how = "cancelled" THEN "cancelled" ELSE "done"]
    /\ UNCHANGED <<lifespan_state, cancel_called, delivered, main_vars, script_vars, tool_vars>>

mcp_server_run_ends(t, how) ==
    /\ conn[t].pc = "run"
    /\ active_connections' = active_connections \ {t}
    /\ read_stream_writers' = read_stream_writers \ {t}
    /\ conn' = [conn EXCEPT ![t].pc = IF how = "cancelled" THEN "cancelled" ELSE "done"]
    /\ UNCHANGED <<lifespan_state, cancel_called, delivered, main_vars, script_vars, tool_vars>>

\* lifespan that clears the set without cancelling the tasks
lifespan_no_cancel ==
    /\ lifespan_state = "running"
    /\ cancel_called' = cancel_called
    /\ active_connections' = {}
    /\ lifespan_state' = "stopped"
    /\ UNCHANGED <<conn, read_stream_writers, delivered, main_vars, script_vars, tool_vars>>

\* lifespan after `yield` (server.py:24-26).
lifespan ==
    /\ lifespan_state = "running"
    /\ cancel_called' = cancel_called \cup active_connections
    /\ active_connections' = {}
    /\ lifespan_state' = "stopped"
    /\ UNCHANGED <<conn, read_stream_writers, delivered, main_vars, script_vars, tool_vars>>

\* mcp_server.run of a session that received a message dispatches a tool
\* call to its handler (server.py:67-72).
call_tool(t) ==
    /\ conn[t].pc = "run"
    /\ delivered[t] >= 1
    /\ \/ tool_client_get_active
       \/ tool_sessions_get_active

InitServer ==
    /\ IdleMain
    /\ IdleScript
    /\ plex = PlexSessions
    /\ tool = NoTool
    /\ lifespan_state = "running"
    /\ active_connections = {}
    /\ conn = [t \in Tasks |-> IdleConn]
    /\ cancel_called = {}
    /\ read_stream_writers = {}
    /\ delivered = [s \in Tasks |-> 0]

NextServer ==
    \/ \E t \in Tasks, scope \in Scopes : Request(t, scope)
    \/ \E t \in Tasks : connect_sse_entered(t)
    \/ \E t \in Tasks : connect_sse_raises(t)
    \/ \E t \in Tasks, how \in RunEnds : mcp_server_run_ends(t, how)
    \/ \E t \in Tasks : call_tool(t)
    \/ tool_returns
    \/ lifespan

SpecServer == InitServer /\ [][NextServer]_vars

(***************************************************************************)
(* Specifications of the entry points                                      *)
(***************************************************************************)
IdleServer ==
    /\ lifespan_state = "idle"
    /\ active_connections = {}
    /\ conn = [t \in Tasks |-> IdleConn]
    /\ cancel_called = {}
    /\ read_stream_writers = {}
    /\ delivered = [s \in Tasks |-> 0]

InitMain ==
    /\ IdleServer
    /\ IdleScript
    /\ IdleTools
    /\ environ \in Environs
    /\ main_pc = "start"
    /\ uvicorn_run = NoCall
    /\ app_debug = "unset"

NextMain ==
    \/ main
    \/ import_app

SpecMain == InitMain /\ [][NextMain]_vars

InitScript ==
    /\ IdleServer
    /\ IdleMain
    /\ IdleTools
    /\ argv \in Argvs
    /\ script_pc = "start"
    /\ args = NoArgs
    /\ started = <<>>
    /\ script_app = NoApp

\* plex_mcp_server.py:93-114, GET /sse of the script's application:
\* handle_sse makes a transport of its own (line 94) and hands
\* StreamingResponse a coroutine whose body opens the session on that
\* transport; entered tells whether the response runs the body at all.
handle_sse(t, entered) ==
    /\ script_pc = "uvicorn.run"
    /\ t \notin script_app.opened
    /\ script_app.inner[t] = {}
    /\ script_app' = IF entered
                     THEN [script_app EXCEPT !.inner[t] = {t}, !.opened = @ \cup {t}]
                     ELSE [script_app EXCEPT !.opened = @ \cup {t}]
    /\ UNCHANGED <<argv, script_pc, args, started, http_vars, main_vars, tool_vars>>

\* plex_mcp_server.py:121, POST /messages/?session_id=...: the mount hands the
\* request to handle_post_message of `sse` of create_starlette_app (line 91)
script_post_message(session_id) ==
    /\ script_pc = "uvicorn.run"
    /\ script_app' =
         [script_app EXCEPT !.post =
             [session_id |-> session_id,
              status |-> handle_post_message_response(
                             script_app.outer,
                             [type |-> "http", method |-> "POST",
                              path |-> PathMessagesSlash,
                              session_id |-> session_id]).status]]
    /\ UNCHANGED <<argv, script_pc, args, started, http_vars, main_vars, tool_vars>>

NextScript ==
    \/ script_parse_args
    \/ script_run_transport
    \/ script_exit
    \/ \E t \in Tasks, entered \in BOOLEAN : handle_sse(t, entered)
    \/ \E session_id \in Tasks \cup {NoSession} : script_post_message(session_id)

SpecScript == InitScript /\ [][NextScript]_vars

(***************************************************************************)
(* Specification of the tool handlers                                      *)
(***************************************************************************)
InitTools ==
    /\ IdleServer
    /\ IdleMain
    /\ IdleScript
    /\ plex \in PlexServers
    /\ tool = NoTool

NextTools ==
    \/ tool_client_list
    \/ tool_client_get_details
    \/ tool_client_get_timelines
    \/ tool_client_get_active
    \/ tool_client_start_playback
    \/ tool_client_control_playback
    \/ tool_client_navigate
    \/ tool_client_set_streams
    \/ tool_collection_list
    \/ tool_collection_create
    \/ tool_collection_add_to
    \/ tool_collection_remove_from
    \/ tool_collection_delete
    \/ tool_collection_edit
    \/ tool_sessions_get_active
    \/ tool_sessions_get_media_playback_history
    \/ tool_library_list
    \/ tool_library_refresh
    \/ tool_library_scan
    \/ tool_library_get_details
    \/ tool_library_get_recently_added
    \/ tool_library_get_stats
    \/ library_get_stats_request_completes
    \/ tool_library_get_contents
    \/ library_get_contents_request_completes
    \/ tool_returns

SpecTools == InitTools /\ [][NextTools]_vars

(***************************************************************************)
(* Properties                                                              *)
(***************************************************************************)

\* C4: when the lifespan context exits, cancel() is called on every task
\* that is in active_connections at that moment, and active_connections is
\* empty right after.
C4_ShutdownCancelsRegistered ==
    [][(lifespan_state = "running" /\ lifespan_state' = "stopped")
         => (/\ active_connections \subseteq cancel_called'
             /\ active_connections' = {})]_vars

\* a shutdown that found a registered, still running connection and cancelled it
C4_Witness ==
    /\ lifespan_state = "stopped"
    /\ \E t \in cancel_called : conn[t].pc = "run"
    /\ active_connections = {}

\* The paths of the model that begin with "/messages"
MessagePaths == {PathMessagesSlash, PathMessages, PathMessagesX}

IsSseGet(scope) ==
    scope.type = "http" /\ scope.method = "GET" /\ scope.path \in {PathSse, PathSseSlash}

IsMessageRequest(scope) ==
    scope.type = "http" /\ scope.path \in MessagePaths /\ ~IsSseGet(scope)

\* C6: under the mount, GET /sse and GET /sse/ open an SSE session on which
\* the protocol server runs; an HTTP request whose path starts with
\* /messages goes to the same transport's message-post handler, so a
\* message posted for an open session of the SSE endpoint is handed to that
\* session; every other request gets 404 "Not Found".
C6_Routing ==
    /\ [](\A t \in Tasks :
            conn[t].handler = "sse_handler" =>
              /\ IsSseGet(conn[t].scope) =>
                    /\ conn[t].branch = "connect_sse"
                    /\ conn[t].response = NoResponse
                    /\ conn[t].pc = "run" => t \in read_stream_writers
              /\ IsMessageRequest(conn[t].scope) =>
                    /\ conn[t].branch = "handle_post_message"
                    /\ conn[t].response.status \in {202, 400, 404}
                    /\ conn[t].response.status = 404
                         => conn[t].response.body = "Could not find session"
                    /\ conn[t].response.status = 202
                         => /\ delivered[conn[t].scope.session_id] >= 1
                            /\ conn[conn[t].scope.session_id].branch = "connect_sse"
              /\ (~IsSseGet(conn[t].scope) /\ ~IsMessageRequest(conn[t].scope)) =>
                    /\ conn[t].branch = "not_found"
                    /\ conn[t].response = [status |-> 404, body |-> "Not Found"])
    /\ [][\A t \in Tasks :
            (/\ conn[t].pc = "idle"
             /\ conn'[t].pc # "idle"
             /\ conn'[t].handler = "sse_handler"
             /\ IsMessageRequest(conn'[t].scope)
             /\ conn'[t].scope.session_id # NoSession
             /\ conn[conn'[t].scope.session_id].pc = "run")
            => /\ conn'[t].response.status = 202
               /\ delivered'[conn'[t].scope.session_id]
                    = delivered[conn'[t].scope.session_id] + 1]_vars

\* a message posted to /messages (no trailing slash) reached the session
\* that another task opened through GET /sse/
C6_Witness ==
    \E t \in Tasks, u \in Tasks :
        /\ conn[t].scope.path = PathMessages
        /\ conn[t].scope.session_id = u
        /\ conn[t].response.status = 202
        /\ delivered[u] = 1
        /\ conn[u].scope.path = PathSseSlash
        /\ conn[u].pc = "run"

\* C7: for every command line the parser accepts, exactly one transport is
\* started: stdio alone with --transport stdio, otherwise (sse or no
\* option) the HTTP application alone, on the given host and port.
C7_OneTransport ==
    /\ Len(started) <= 1
    /\ script_pc \in {"mcp.run", "uvicorn.run", "exited"} =>
         /\ Len(started) = 1
         /\ argv.transport = "stdio" => started[1] = StdioTransport
         /\ argv.transport # "stdio" =>
              /\ started[1].transport = "sse"
              /\ started[1].host = (IF argv.host = Unset THEN DefaultHost ELSE argv.host)
              /\ started[1].port = (IF argv.port = 0 THEN 3001 ELSE argv.port)
              /\ started[1].debug = argv.debug

\* the script ran to its end without a --transport option and served HTTP
C7_Witness ==
    /\ script_pc = "exited"
    /\ argv.transport = "<unset>"
    /\ Len(started) = 1
    /\ started[1].transport = "sse"
    /\ started[1].port = 3001

\* The values of FASTMCP_RELOAD in the model whose lower case is true, 1 or yes
ReloadOnValues ==
    {<<"t", "r", "u", "e">>, <<"T", "r", "u", "e">>, <<"T", "R", "U", "E">>, <<"1">>,
     <<"y", "e", "s">>, <<"Y", "e", "s">>, <<"Y", "E", "S">>}

ExpectedDebug == environ["FASTMCP_DEBUG"] = <<"T", "r", "u", "e">>

ExpectedReload ==
    IF environ["FASTMCP_RELOAD"] = Unset
    THEN ExpectedDebug
    ELSE environ["FASTMCP_RELOAD"] \in ReloadOnValues

\* C8: main() serves on FASTMCP_HOST (default 0.0.0.0) and FASTMCP_PORT
\* (default 3001); debug is on exactly when FASTMCP_DEBUG is "True"; hot
\* reload defaults to debug and is otherwise on exactly when FASTMCP_RELOAD
\* lower-cased is true, 1 or yes; the graceful-shutdown timeout is 2 with
\* hot reload and 5 without.
C8_MainConfiguration ==
    /\ main_pc = "serving" =>
         /\ uvicorn_run.called
         /\ uvicorn_run.host = (IF environ["FASTMCP_HOST"] = Unset
                                THEN <<"0", ".", "0", ".", "0", ".", "0">>
                                ELSE environ["FASTMCP_HOST"])
         /\ environ["FASTMCP_PORT"] = Unset => uvicorn_run.port = 3001
         /\ environ["FASTMCP_PORT"] = <<"8", "0", "8", "0">> => uvicorn_run.port = 8080
         /\ uvicorn_run.reload = ExpectedReload
         /\ uvicorn_run.timeout_graceful_shutdown = (IF ExpectedReload THEN 2 ELSE 5)
    /\ app_debug # "unset" => (app_debug = "on" <=> ExpectedDebug)
    /\ (main_pc = "serving" /\ environ = NoEnviron) =>
         /\ uvicorn_run.reload = FALSE
         /\ uvicorn_run.timeout_graceful_shutdown = 5
         /\ app_debug \in {"unset", "off"}

\* main() served with FASTMCP_RELOAD=Yes and debug off: hot reload on, timeout 2
C8_Witness ==
    /\ main_pc = "serving"
    /\ environ["FASTMCP_RELOAD"] = <<"Y", "e", "s">>
    /\ environ["FASTMCP_DEBUG"] = Unset
    /\ uvicorn_run.reload
    /\ uvicorn_run.timeout_graceful_shutdown = 2
    /\ app_debug = "off"

(***************************************************************************)
(* Properties of the tool handlers                                         *)
(***************************************************************************)
Done(name) == tool.pc = "done" /\ tool.name = name

\* every call of the invocation returned
NoFault == \A i \in DOMAIN tool.calls : tool.calls[i].ok

\* C2: with exactly two connected clients of distinct machine identifiers and
\* no session player, client_list(include_details = true) returns a success
\* record with count 2 and two client entries, not an error record.
C2_ClientListTwoClients ==
    ( /\ Done("client_list")
      /\ tool.args.include_details
      /\ NoFault
      /\ Len(plex.clients) = 2
      /\ plex.clients[1].machineIdentifier # plex.clients[2].machineIdentifier
      /\ session_players(plex.sessions) = <<>> )
    => /\ tool.st = "returned"
       /\ tool.ret.model = "ClientListResponse"
       /\ tool.ret.status = "success"
       /\ tool.ret.count = 2
       /\ Len(tool.ret.clients) = 2

\* C3: library_list with a working connection and n >= 1 sections of distinct
\* titles returns a LibraryListResponse with exactly n entries keyed by title,
\* not an error record.
C3_LibraryListMapsSections ==
    ( /\ Done("library_list")
      /\ NoFault
      /\ Len(plex.sections) >= 1
      /\ \A i, j \in DOMAIN plex.sections :
            plex.sections[i].title = plex.sections[j].title => i = j )
    => /\ tool.st = "returned"
       /\ tool.ret.model = "LibraryListResponse"
       /\ tool.ret.libraries = {plex.sections[i].title : i \in DOMAIN plex.sections}
       /\ Cardinality(tool.ret.libraries) = Len(plex.sections)

\* The calls that change something on the media server or on a player.
MutatingOps ==
    {"client.play", "client.pause", "client.stop", "client.skipNext",
     "client.skipPrevious", "client.stepForward", "client.stepBack", "client.seekTo",
     "client.mute", "client.unmute", "client.setVolume", "client.playMedia",
     "media.playOn", "client.moveUp", "client.moveDown", "client.moveLeft",
     "client.moveRight", "client.select", "client.goBack", "client.goToHome",
     "client.contextMenu", "client.setAudioStream", "client.setSubtitleStream",
     "client.setVideoStream", "library.createCollection", "collection.addItems",
     "collection.removeItems", "collection.delete", "collection.edit",
     "collection.addLabel", "collection.removeLabel", "collection.uploadPoster",
     "collection.uploadArt", "section.refresh", "plex.library.refresh",
     "section.update"}

MutatingCalls == {i \in DOMAIN tool.calls : tool.calls[i].op \in MutatingOps}

\* C9: no handler retries: once a mutating call to the media server has
\* raised, the handler makes no further mutating call in that request and
\* returns an error record.
C9_NoRetry ==
    tool.pc = "done" =>
        \A i \in MutatingCalls :
            ~tool.calls[i].ok =>
                /\ \A j \in MutatingCalls : j <= i
                /\ tool.st = "returned"
                /\ tool.ret.model = "ErrorResponse"
                /\ tool.ret.status = "error"

\* collection_edit changed the collection, then its second label call raised
C9_Witness ==
    /\ Done("collection_edit")
    /\ \E i \in MutatingCalls :
          /\ ~tool.calls[i].ok
          /\ tool.calls[i].op = "collection.addLabel"
          /\ \E j \in MutatingCalls : j < i /\ tool.calls[j].ok
    /\ tool.ret.model = "ErrorResponse"

FailedCalls == {i \in DOMAIN tool.calls : ~tool.calls[i].ok}

ExcTypes == {"NotFound", "Exception", "AttributeError"}

OfType(ops, types) == {[op |-> o, type |-> ty] : o \in ops, ty \in types}

\* The calls a handler makes inside a try statement of its own, by the
\* exception types that statement catches.
LocallyHandled(name) ==
    CASE name \in {"client_get_details", "client_navigate"} ->
           OfType({"plex.client"}, {"NotFound"})
      [] name \in {"client_get_timelines", "client_control_playback"} ->
           OfType({"plex.client"}, {"NotFound"}) \cup OfType({"client.timeline"}, ExcTypes)
      [] name = "client_set_streams" ->
           OfType({"plex.client"}, {"NotFound"})
           \cup OfType({"client.timeline", "plex.sessions"}, ExcTypes)
      [] name = "client_start_playback" ->
           OfType({"plex.client"}, {"NotFound"})
           \cup OfType({"plex.library.section", "library.search"}, ExcTypes)
      [] name = "collection_list" ->
           OfType({"plex.library.section", "section.collections"}, {"NotFound"})
      [] name = "collection_create" ->
           OfType({"plex.library.section"}, {"NotFound"})
           \cup OfType({"section.collections", "plex.fetchItem"}, ExcTypes)
      [] name \in {"collection_add_to", "collection_remove_from", "collection_delete",
                   "collection_edit"} ->
           OfType({"plex.library.section"}, {"NotFound"})
           \cup OfType({"section.collections", "plex.fetchItem"}, ExcTypes)
      [] name = "library_scan" -> OfType({"section.update"}, {"NotFound"})
      [] name = "sessions_get_media_playback_history" ->
           OfType({"plex.library.section", "library.search", "plex.myPlexAccount",
                   "plex.systemDevice"}, ExcTypes)
           \cup OfType({"media.history"}, {"AttributeError"})
      [] OTHER -> {}

Perms(n) == {p \in [1..n -> 1..n] : \A i, j \in 1..n : p[i] = p[j] => i = j}

Failing(faults, urls) == {i \in DOMAIN urls : Fails(faults, urls[i])}

\* What the handler sees of a completion order: the requests completed when
\* asyncio.gather has its outcome.
Seen(faults, urls, p) ==
    LET stops == {j \in DOMAIN p : p[j] \in Failing(faults, urls)}
        last == IF stops = {} THEN Len(p) ELSE CHOOSE j \in stops : \A h \in stops : j <= h
    IN SubSeq(p, 1, last)

CompletionOrders(faults, urls) == {Seen(faults, urls, p) : p \in Perms(Len(urls))}

SectionOf(library_name) == find_section(plex.sections, library_name)

ContentsUrls(library_name) ==
    IF SectionOf(library_name) = 0 THEN <<>>
    ELSE IF plex.sections[SectionOf(library_name)].type # "show" THEN <<>>
    ELSE show_urls(plex, plex.sections[SectionOf(library_name)])

\* C10 as stated: the result of library_get_stats and of library_get_contents
\* is the same for every completion order of the concurrent requests, and in
\* library_get_contents the i-th show item is paired with the metadata
\* response of its own rating key.
C10_SameResultInEveryOrder ==
    /\ Done("library_get_stats") =>
          \A o1 \in CompletionOrders(tool.faults, StatsUrls),
             o2 \in CompletionOrders(tool.faults, ShowStatsUrls) :
             library_get_stats(tool.args.library_name, o1, o2, plex, tool.faults).ret
                = tool.ret
    /\ Done("library_get_contents") =>
          /\ \A o \in CompletionOrders(tool.faults, ContentsUrls(tool.args.library_name)) :
                library_get_contents(tool.args.library_name, o, plex, tool.faults).ret
                   = tool.ret
          /\ tool.args.order # <<>> =>
                \A i \in DOMAIN tool.items :
                    tool.items[i].metadata_of = tool.items[i].ratingKey

SameButDetail(r, s) == r.model = s.model /\ r.status = s.status /\ r.prefix = s.prefix

\* C10, amended: in every completion order of the concurrent requests the
\* handler returns the same kind of record with the same status, and the
\* same record when at most one request of a gather fails (when several
\* fail, the error message names the one that failed first); in
\* library_get_contents the i-th show item is paired with the metadata
\* response of its own rating key.
C10_FanOutOfReads ==
    /\ Done("library_get_stats") =>
          \A o1 \in CompletionOrders(tool.faults, StatsUrls),
             o2 \in CompletionOrders(tool.faults, ShowStatsUrls) :
             LET r == library_get_stats(tool.args.library_name, o1, o2, plex,
                                        tool.faults).ret
             IN /\ SameButDetail(r, tool.ret)
                /\ (/\ Cardinality(Failing(tool.faults, StatsUrls)) <= 1
                    /\ Cardinality(Failing(tool.faults, ShowStatsUrls)) <= 1) => r = tool.ret
                /\ r # tool.ret =>
                      /\ tool.ret.detail = tool.calls[Len(tool.calls)].op
                      /\ ~tool.calls[Len(tool.calls)].ok
    /\ Done("library_get_contents") =>
          /\ \A o \in CompletionOrders(tool.faults, ContentsUrls(tool.args.library_name)) :
                LET r == library_get_contents(tool.args.library_name, o, plex,
                                              tool.faults).ret
                IN /\ SameButDetail(r, tool.ret)
                   /\ Cardinality(Failing(tool.faults,
                                          ContentsUrls(tool.args.library_name))) <= 1
                        => r = tool.ret
                   /\ r # tool.ret =>
                         /\ tool.ret.detail = tool.calls[Len(tool.calls)].op
                         /\ ~tool.calls[Len(tool.calls)].ok
          /\ tool.args.order # <<>> =>
                \A i \in DOMAIN tool.items :
                    tool.items[i].metadata_of = tool.items[i].ratingKey

\* library_get_contents of a show library whose three metadata requests
\* completed last-first, each show paired with its own metadata
C10_Witness ==
    /\ Done("library_get_contents")
    /\ tool.args.order = <<3, 2, 1>>
    /\ Len(tool.items) = 3
    /\ \A i \in DOMAIN tool.items : tool.items[i].metadata_of = tool.items[i].ratingKey
    /\ \E i, j \in DOMAIN tool.items : tool.items[i].episodeCount # tool.items[j].episodeCount

\* What a handler that a session can call returns for its own arguments.
ResultOf(name, px, faults) ==
    CASE name = "client_get_active" -> client_get_active(px, faults).ret
      [] name = "sessions_get_active" -> sessions_get_active(px, faults).ret
      [] OTHER -> NoRet

registration_all_read(name) == [tags |-> {"read"}, readOnlyHint |-> TRUE]

\* modules/*.py, @mcp.tool(name=..., tags={ToolTag....value},
\* annotations=ToolAnnotations(...)): how every tool is registered
registration(name) ==
    IF name \in {"client_list", "client_get_details", "client_get_timelines",
                 "client_get_active", "collection_list", "library_list",
                 "library_get_stats", "library_get_details",
                 "library_get_recently_added", "library_get_contents",
                 "sessions_get_active", "sessions_get_media_playback_history"}
    THEN [tags |-> {"read"}, readOnlyHint |-> TRUE]
    ELSE IF name = "collection_delete"
    THEN [tags |-> {"delete"}, readOnlyHint |-> FALSE]
    ELSE [tags |-> {"write"}, readOnlyHint |-> FALSE]

IsReadTool(name) == "read" \in registration(name).tags /\ registration(name).readOnlyHint

\* C11: a tool registered with the read tag and readOnlyHint = true makes no
\* mutating call to the media server on any path, whatever raises.
C11_ReadToolsDoNotMutate ==
    (tool.pc = "done" /\ IsReadTool(tool.name)) => MutatingCalls = {}

\* a read tool finished after calls to the media server, one of which raised
C11_Witness ==
    /\ Done("sessions_get_media_playback_history")
    /\ IsReadTool(tool.name)
    /\ Len(tool.calls) >= 3
    /\ ~NoFault

RecentlyAdded == Done("library_get_recently_added") /\ tool.args.library_name = <<>>

\* C12: library_get_recently_added without a library name and with count = k,
\* on a working connection, returns a LibraryRecentlyAddedResponse with at most
\* k items, the k latest by addedAt, and a count field equal to the number of
\* items returned and not greater than k.
C12_RecentlyAddedLatest ==
    (RecentlyAdded /\ NoFault /\ tool.args.count >= 0)
    => /\ tool.st = "returned"
       /\ tool.ret.model = "LibraryRecentlyAddedResponse"
       /\ Len(tool.ret.items) <= tool.args.count
       /\ tool.ret.count = Len(tool.ret.items)
       /\ tool.ret.count <= tool.args.count
       /\ \A i \in DOMAIN plex.media :
             plex.media[i].ratingKey \notin Range(tool.ret.items)
             => \A r \in Range(tool.ret.items) :
                   \E j \in DOMAIN plex.media :
                       /\ plex.media[j].ratingKey = r
                       /\ plex.media[j].addedAt >= plex.media[i].addedAt

\* C13: a task is in active_connections only while it executes mcp_server.run
\* inside an open SSE connection; when the run ends, however it ends, the task
\* is no longer in the set; and a run that ends after the shutdown clean-up
\* emptied the set ends like any other, the set staying as it was.
C13_MemberOnlyWhileRunning ==
    /\ [](\A t \in active_connections :
              conn[t].pc = "run" /\ conn[t].branch = "connect_sse")
    /\ [][\A t \in Tasks :
            (conn[t].pc = "run" /\ conn'[t].pc # "run")
            => /\ conn'[t].pc \in {"done", "cancelled"}
               /\ t \notin active_connections'
               /\ (t \notin active_connections
                   => active_connections' = active_connections)]_vars

\* a connection's run ended after lifespan cancelled its task and emptied the
\* set, while another task's run goes on outside the set
C13_Witness ==
    /\ lifespan_state = "stopped"
    /\ \E t \in cancel_called : conn[t].pc = "cancelled"
    /\ \E t \in Tasks : conn[t].pc = "run" /\ t \notin active_connections

\* C14: in the application of the script entry point, a message posted to
\* /messages/ for a session that was opened through /sse is accepted for
\* that session: both endpoints work on one session table.
C14_PostReachesSseSession ==
    \A t \in Tasks :
        (script_app.inner[t] # {} /\ script_app.post.session_id \in script_app.inner[t])
        => script_app.post.status = 202

\* the commands client_control_playback can send to a client
PlaybackCommands == {CommandOp(a) : a \in valid_actions}

CommandCalls == {i \in DOMAIN tool.calls : tool.calls[i].op \in PlaybackCommands}

\* the client a name stands for: the client of that title, else the first
\* client whose title holds the name whatever the case, else none
ClientNamed(name, px) ==
    LET titled == {i \in DOMAIN px.clients : px.clients[i].title = name}
        holding == {i \in DOMAIN px.clients :
                       contains(lower(name), lower(px.clients[i].title))}
    IN IF titled # {} THEN px.clients[First(titled)]
       ELSE IF holding # {} THEN px.clients[First(holding)]
       ELSE NoPlayer

\* the checks of client_control_playback in the order of the code, and the
\* message of the error each one returns
ControlChecks(a, px) ==
    << a.action \in valid_actions,
       a.action \in actions_needing_parameter => a.parameter # None,
       a.media_type \in valid_media_types,
       ClientNamed(a.client_name, px) # NoPlayer,
       "playback" \in ClientNamed(a.client_name, px).protocolCapabilities >>

ControlMessages ==
    << "Invalid action", "Action requires a parameter value.", "Invalid media type",
       "No client found matching", "Client does not support playback control." >>

FirstFailed(checks) ==
    IF \A i \in DOMAIN checks : checks[i] THEN 0
    ELSE CHOOSE i \in DOMAIN checks : ~checks[i] /\ \A j \in 1..(i - 1) : checks[j]

\* C15: client_control_playback sends a command to a client only when the
\* action, the parameter, the media type, the client look-up and the client's
\* playback capability pass their checks; the first check that fails, in that
\* order, returns its error record and no command is sent.
C15_ChecksBeforeCommand ==
    Done("client_control_playback") =>
        LET failed == FirstFailed(ControlChecks(tool.args, plex)) IN
        /\ CommandCalls # {} => failed = 0
        /\ failed # 0 =>
              /\ CommandCalls = {}
              /\ tool.st = "returned"
              /\ tool.ret.model = "ErrorResponse"
              /\ tool.ret.status = "error"
              /\ tool.faults = {} => tool.ret.prefix = ControlMessages[failed]

\* a request that passes the first four checks is refused for the missing
\* playback capability of the client found
C15_Witness ==
    /\ Done("client_control_playback")
    /\ tool.faults = {}
    /\ FirstFailed(ControlChecks(tool.args, plex)) = 5
    /\ tool.ret.prefix = "Client does not support playback control."
    /\ CommandCalls = {}

\* C16: client_control_playback calls setVolume only with a parameter within
\* 0..100; a setVolume request that reaches the command with a parameter
\* below 0 or above 100 returns "Volume must be between 0 and 100" and sends
\* no command to the client.
C16_VolumeWithinRange ==
    (Done("client_control_playback") /\ tool.args.action = "setVolume") =>
        /\ \A i \in CommandCalls :
              /\ tool.calls[i].op = "client.setVolume"
              /\ tool.calls[i].arg[2] \in 0..MaxVolume
              /\ tool.calls[i].arg[2] = tool.args.parameter[1]
        /\ ( /\ FirstFailed(ControlChecks(tool.args, plex)) = 0
             /\ tool.faults = {}
             /\ (tool.args.parameter[1] < 0 \/ tool.args.parameter[1] > MaxVolume) )
           => /\ tool.st = "returned"
              /\ tool.ret.model = "ErrorResponse"
              /\ tool.ret.prefix = "Volume must be between 0 and 100"
              /\ CommandCalls = {}

\* a volume above 100 was refused after the client was found capable
C16_Witness ==
    /\ Done("client_control_playback")
    /\ tool.args.action = "setVolume"
    /\ tool.args.parameter = Some(101)
    /\ tool.ret.prefix = "Volume must be between 0 and 100"
    /\ CommandCalls = {}

SeekSeconds == IF tool.args.parameter # None THEN tool.args.parameter[1] ELSE DefaultSeekSeconds

\* C17: seekBack seeks to max(0, time - seconds * 1000) of the client's
\* timeline, never to a negative position, and seekForward to
\* time + seconds * 1000; seconds is the parameter, or 30 without one.
C17_SeekPositions ==
    (Done("client_control_playback") /\ tool.args.action \in {"seekBack", "seekForward"}) =>
        \A i \in CommandCalls :
            LET time == ClientNamed(tool.args.client_name, plex).timeline.time
                target == time - (SeekSeconds * MillisPerSecond)
            IN /\ tool.calls[i].op = "client.seekTo"
               /\ tool.args.action = "seekBack" =>
                     /\ tool.calls[i].arg[2] >= 0
                     /\ tool.calls[i].arg[2] = (IF target > 0 THEN target ELSE 0)
               /\ tool.args.action = "seekForward" =>
                     tool.calls[i].arg[2] = time + (SeekSeconds * MillisPerSecond)

\* a seekBack of 100 seconds from 45 seconds into the media seeks to 0
C17_Witness ==
    /\ Done("client_control_playback")
    /\ tool.args.action = "seekBack"
    /\ tool.args.parameter = Some(100)
    /\ \E i \in CommandCalls :
          /\ tool.calls[i].ok
          /\ tool.calls[i].arg[2] = 0
          /\ ClientNamed(tool.args.client_name, plex).timeline.time = 45000

\* the session players a client list gains: those whose machineIdentifier is
\* neither a client's nor an earlier session player's
NewPlayers(px) ==
    LET players == session_players(px.sessions)
        ids == {px.clients[i].machineIdentifier : i \in DOMAIN px.clients}
        new == {j \in DOMAIN players :
                   /\ players[j].machineIdentifier \notin ids
                   /\ \A i \in 1..(j - 1) :
                         players[i].machineIdentifier # players[j].machineIdentifier}
    IN SelectSeq([j \in DOMAIN players |-> [at |-> j, player |-> players[j]]],
                 LAMBDA e : e.at \in new)

\* C18: client_list(include_details = false) returns the titles of the
\* server's clients followed by those of the session players whose
\* machineIdentifier was not yet among the combined clients, each such
\* identifier once, and count is the length of the list.
C18_ClientsCombinedOnce ==
    (Done("client_list") /\ ~tool.args.include_details /\ NoFault) =>
        LET new == NewPlayers(plex) IN
        /\ tool.st = "returned"
        /\ tool.ret.model = "ClientListResponse"
        /\ tool.ret.status = "success"
        /\ tool.ret.clients = [i \in DOMAIN plex.clients |-> plex.clients[i].title]
                              \o [j \in DOMAIN new |-> new[j].player.title]
        /\ tool.ret.count = Len(tool.ret.clients)

\* a list of one client and three sessions, two of one new player and one of
\* the client itself, came back with two entries
C18_Witness ==
    /\ Done("client_list")
    /\ ~tool.args.include_details
    /\ NoFault
    /\ Len(plex.clients) = 1
    /\ Len(session_players(plex.sessions)) = 3
    /\ tool.ret.count = 2

TimelineReads == {i \in DOMAIN tool.calls : tool.calls[i].op = "client.timeline"}

\* the client client_get_timelines resolved: the one plex.client returned, or
\* after NotFound the first client, else the first session player, whose
\* title holds the name whatever the case
TimelineClient(name, px) ==
    LET looked == {i \in DOMAIN tool.calls : tool.calls[i].op = "plex.client"}
        players == session_players(px.sessions)
        titled == {i \in DOMAIN px.clients : px.clients[i].title = name}
        holding == {i \in DOMAIN px.clients :
                       contains(lower(name), lower(px.clients[i].title))}
        playing == {i \in DOMAIN players : contains(lower(name), lower(players[i].title))}
    IN IF \A i \in looked : tool.calls[i].ok THEN px.clients[First(titled)]
       ELSE IF holding # {} THEN px.clients[First(holding)]
       ELSE players[First(playing)]

\* C19: once client_get_timelines has resolved a client and reads its
\* timeline, it returns a ClientTimelineResponse: with a timeline, status
\* success and source "timeline"; with no timeline, or when the read raises,
\* status success and source "session" from the first active session whose
\* player has the client's machineIdentifier, and with no such session status
\* "info" (no timeline) or "warning" (the read raised).
C19_TimelineFallsBackToSession ==
    (Done("client_get_timelines") /\ TimelineReads # {}) =>
        LET client == TimelineClient(tool.args.client_name, plex)
            raised == \E i \in TimelineReads : ~tool.calls[i].ok
            mine == {i \in DOMAIN plex.sessions :
                        /\ plex.sessions[i].has_player
                        /\ plex.sessions[i].player.machineIdentifier
                              = client.machineIdentifier}
            first == plex.sessions[First(mine)]
        IN /\ tool.st = "returned"
           /\ tool.ret.model = "ClientTimelineResponse"
           /\ tool.ret.client_name = client.title
           /\ (~raised /\ client.timeline.present) =>
                 /\ tool.ret.status = "success"
                 /\ tool.ret.source = "timeline"
                 /\ tool.ret.timeline.time = client.timeline.time
           /\ ((raised \/ ~client.timeline.present) /\ mine # {}) =>
                 /\ tool.ret.status = "success"
                 /\ tool.ret.source = "session"
                 /\ tool.ret.timeline = [time |-> first.viewOffset,
                                         duration |-> first.duration,
                                         title |-> first.title]
           /\ (~raised /\ ~client.timeline.present /\ mine = {}) =>
                 tool.ret.status = "info" /\ tool.ret.source = "none"
           /\ (raised /\ mine = {}) =>
                 tool.ret.status = "warning" /\ tool.ret.source = "none"

\* the timeline read of a player with two active sessions raised, and the
\* first of the two sessions was reported
C19_Witness ==
    /\ Done("client_get_timelines")
    /\ \E i \in TimelineReads : ~tool.calls[i].ok
    /\ tool.ret.source = "session"
    /\ Cardinality(sessions_of(TimelineClient(tool.args.client_name, plex),
                               plex.sessions)) = 2
    /\ tool.ret.timeline.title = "Film"

\* the playback commands client_start_playback can send
PlayCalls ==
    {i \in DOMAIN tool.calls : tool.calls[i].op \in {"client.playMedia", "media.playOn"}}

\* the items the media search of a request finds: plex.search(title), or the
\* search of the named library
SearchResults(a, px) ==
    LET n == find_section(px.sections, a.library_name)
    IN IF a.library_name = <<>> THEN search(px.media, a.media_title)
       ELSE IF n = 0 THEN <<>>
       ELSE section_search(px.media, px.sections[n], a.media_title)

\* the media search of the request was made and returned
Searched ==
    \E i \in DOMAIN tool.calls :
        tool.calls[i].op \in {"plex.search", "library.search"} /\ tool.calls[i].ok

\* C20: client_start_playback sends at most one playMedia or playOn, and only
\* for the single item its search found, on the client its client_name
\* resolved to. A search without result returns an error; one with several
\* returns status multiple_results with the first 10 items at most and the
\* total as count; without client_name the reply is client_selection, or an
\* error when no client is connected; none of these sends a playback command.
C20_PlaysOneItemOnNamedClient ==
    Done("client_start_playback") =>
        LET a == tool.args
            results == SearchResults(a, plex)
            client == ClientNamed(a.client_name, plex)
            shown == IF Len(results) < MaxListed THEN Len(results) ELSE MaxListed
        IN /\ Cardinality(PlayCalls) <= 1
           /\ tool.st = "returned"
           /\ PlayCalls # {} =>
                 /\ Searched
                 /\ Len(results) = 1
                 /\ a.client_name # <<>>
                 /\ client # NoPlayer
                 /\ \A i \in PlayCalls :
                       \/ /\ tool.calls[i].op = "client.playMedia"
                          /\ ~a.use_external_player
                          /\ tool.calls[i].arg
                                = <<client.title, results[1].ratingKey, a.offset>>
                       \/ /\ tool.calls[i].op = "media.playOn"
                          /\ a.use_external_player
                          /\ tool.calls[i].arg = <<results[1].ratingKey, client.title>>
           /\ (Searched /\ results = <<>>) =>
                 /\ PlayCalls = {}
                 /\ tool.ret.model = "ErrorResponse"
                 /\ tool.ret.prefix = "No media found matching"
           /\ (Searched /\ Len(results) > 1) =>
                 /\ PlayCalls = {}
                 /\ tool.ret.model = "PlaybackResponse"
                 /\ tool.ret.status = "multiple_results"
                 /\ tool.ret.count = Len(results)
                 /\ Len(tool.ret.results) <= MaxListed
                 /\ tool.ret.results = [i \in 1..shown |-> results[i].ratingKey]
           /\ (Searched /\ Len(results) = 1 /\ a.client_name = <<>>) =>
                 /\ PlayCalls = {}
                 /\ NoFault =>
                       /\ tool.ret.model = "PlaybackResponse"
                       /\ tool.ret.status = IF plex.clients = <<>> THEN "error"
                                            ELSE "client_selection"

\* a search that found eleven items returned the first ten of them with
\* count 11 and played nothing
C20_Witness ==
    /\ Done("client_start_playback")
    /\ Searched
    /\ Len(SearchResults(tool.args, plex)) = MaxListed + 1
    /\ tool.ret.status = "multiple_results"
    /\ Len(tool.ret.results) = MaxListed
    /\ tool.ret.count = MaxListed + 1
    /\ tool.args.client_name # <<>>
    /\ PlayCalls = {}

StreamOps == {"client.setAudioStream", "client.setSubtitleStream", "client.setVideoStream"}

\* the stream calls of the request, in the order they were made
StreamCalls == SelectSeq(tool.calls, LAMBDA c : c.op \in StreamOps)

\* the streams a request gives, in the order audio, subtitle, video
GivenStreams(a) ==
    SelectSeq(<<[op |-> "client.setAudioStream", id |-> a.audio_stream_id],
                [op |-> "client.setSubtitleStream", id |-> a.subtitle_stream_id],
                [op |-> "client.setVideoStream", id |-> a.video_stream_id]>>,
              LAMBDA g : g.id # None)

\* C21: client_set_streams sets a stream only when a stream id is given and
\* the client found plays by its timeline (state "playing") or has an active
\* session of its machineIdentifier. The streams set are the ids given, each
\* once, in the order audio, subtitle, video; when one of them fails the
\* earlier ones stay set, no later one is tried and an error is returned; a
\* request that meets the conditions and whose calls all return sets them all.
C21_StreamsOnlyWhilePlaying ==
    Done("client_set_streams") =>
        LET a == tool.args
            client == ClientNamed(a.client_name, plex)
            given == GivenStreams(a)
            sent == StreamCalls
            playing == client.timeline.present /\ client.timeline.state = "playing"
            in_session == sessions_of(client, plex.sessions) # {}
        IN /\ tool.st = "returned"
           /\ sent # <<>> =>
                 /\ given # <<>>
                 /\ client # NoPlayer
                 /\ playing \/ in_session
           /\ Len(sent) <= Len(given)
           /\ \A i \in DOMAIN sent :
                 /\ sent[i].op = given[i].op
                 /\ sent[i].arg = <<client.title, given[i].id[1]>>
                 /\ i < Len(sent) => sent[i].ok
           /\ (sent # <<>> /\ ~sent[Len(sent)].ok) =>
                 /\ tool.ret.model = "ErrorResponse"
                 /\ tool.ret.prefix = "Error setting streams: "
           /\ (sent # <<>> /\ sent[Len(sent)].ok) =>
                 /\ Len(sent) = Len(given)
                 /\ tool.ret.model = "SuccessResponse"
                 /\ tool.ret.status = "success"
           /\ (given = <<>> /\ NoFault) =>
                 tool.ret.model = "SuccessResponse" /\ tool.ret.status = "error"
           /\ (tool.faults = {} /\ given # <<>> /\ client # NoPlayer
                  /\ (playing \/ in_session)) => Len(sent) = Len(given)
           /\ (tool.faults = {} /\ given # <<>> /\ client # NoPlayer
                  /\ ~playing /\ ~in_session) =>
                 /\ tool.ret.model = "ErrorResponse"
                 /\ tool.ret.prefix = "Client is not currently playing any media."

\* with the three streams given on a client that plays, the audio stream was
\* set, the subtitle stream failed, the video stream was not tried and an
\* error came back
C21_Witness ==
    /\ Done("client_set_streams")
    /\ Len(GivenStreams(tool.args)) = 3
    /\ Len(StreamCalls) = 2
    /\ StreamCalls[1].ok
    /\ ~StreamCalls[2].ok
    /\ tool.ret.model = "ErrorResponse"

====
